---- MODULE Spec2Model ----
(***************************************************************************)
(* A model of the order/fill signing core of the Signet TypeScript SDK:    *)
(* signature canonicalisation and the order hash (src/signing/hash.ts),    *)
(* artifact validation (src/signing/validate.ts), the feasibility          *)
(* evaluator (src/signing/feasibility.ts) and the order and fill builders  *)
(* (src/signing/order.ts, src/signing/fill.ts).                            *)
(*                                                                         *)
(* Conventions.  A Hex value is modelled as the sequence of its characters *)
(* after the "0x" prefix, one one-character string per element.  A bigint  *)
(* is a record [neg, mag], mag being its base-16 digits, most significant  *)
(* first, without leading zeros (<<>> is zero).  An address is a record    *)
(* [id, form]: the 20-byte value and the letter case it is written in.     *)
(* keccak256 is a free constructor: the record [keccak |-> input bytes].   *)
(***************************************************************************)
EXTENDS Integers, Sequences, FiniteSets, TLC

VARIABLES
    \* signature / order hash
    sigA, sigB, normA, normAA, hashA, hashB, hashN,
    \* validateOrder / validateFill
    clockMs, vArtifact, vKind, vResult,
    \* checkOrderFeasibility
    fOrder, fChain, fPc, fIssues, fReads, fResult,
    \* UnsignedOrder / UnsignedFill builders
    bKind, bInputs, bOutputs, bDeadline, bNonce, bChain, bCall, bArtifacts,
    bSigns, bLast,
    \* nonceFromSeed
    seedA, seedB, seedNonceA, seedNonceB,
    \* serializeOrder / deserializeOrder
    serOrder, serRaw, serBack,
    \* serializeEthBundle, serializeCallBundle and their inverses
    bunIn, bunRaw, bunBack,
    \* ensurePermit2Approval
    apParams, apAllowance, apPc, apLog, apResult,
    \* FaucetClient.canRequest
    fcAddress, fcReply, fcPc, fcResult

sigVars  == <<sigA, sigB, normA, normAA, hashA, hashB, hashN>>
valVars  == <<clockMs, vArtifact, vKind, vResult>>
feasVars == <<fOrder, fChain, fPc, fIssues, fReads, fResult>>
bldVars  == <<bKind, bInputs, bOutputs, bDeadline, bNonce, bChain, bCall,
              bArtifacts, bSigns, bLast>>
seedVars == <<seedA, seedB, seedNonceA, seedNonceB>>
serVars  == <<serOrder, serRaw, serBack>>
bunVars  == <<bunIn, bunRaw, bunBack>>
apVars   == <<apParams, apAllowance, apPc, apLog, apResult>>
fcVars   == <<fcAddress, fcReply, fcPc, fcResult>>
coreVars == <<sigVars, valVars, feasVars, bldVars, seedVars>>
otherVars == <<serVars, bunVars, apVars, fcVars>>
vars     == <<coreVars, otherVars>>

(***************************************************************************)
(* Hex strings and bigints                                                 *)
(***************************************************************************)
HexDigits == <<"0","1","2","3","4","5","6","7","8","9","a","b","c","d","e","f">>

HexChars == {"0","1","2","3","4","5","6","7","8","9","a","b","c","d","e","f",
             "A","B","C","D","E","F"}

HexVal(c) ==
    CASE c = "0" -> 0 [] c = "1" -> 1 [] c = "2" -> 2 [] c = "3" -> 3
      [] c = "4" -> 4 [] c = "5" -> 5 [] c = "6" -> 6 [] c = "7" -> 7
      [] c = "8" -> 8 [] c = "9" -> 9
      [] c \in {"a", "A"} -> 10 [] c \in {"b", "B"} -> 11
      [] c \in {"c", "C"} -> 12 [] c \in {"d", "D"} -> 13
      [] c \in {"e", "E"} -> 14 [] c \in {"f", "F"} -> 15

\* String.prototype.slice(a, b) on 0-based offsets, clamped to the string.
Slice(s, a, b) ==
    LET hi == IF b > Len(s) THEN Len(s) ELSE b
    IN  IF a >= hi THEN <<>> ELSE [i \in 1..(hi - a) |-> s[a + i]]

\* String.prototype.padStart(n, c)
PadStart(s, n, c) ==
    IF Len(s) >= n THEN s ELSE [i \in 1..(n - Len(s)) |-> c] \o s

RECURSIVE StripZeros(_)
StripZeros(d) ==
    IF d = <<>> THEN <<>>
    ELSE IF d[1] = 0 THEN StripZeros(Tail(d)) ELSE d

\* BigInt("0x" + chars): a SyntaxError (ok = FALSE) on an empty or non-hex text.
BigIntOfHex(chars) ==
    IF chars = <<>> \/ \E i \in 1..Len(chars) : chars[i] \notin HexChars
    THEN [ok |-> FALSE, val |-> [neg |-> FALSE, mag |-> <<>>]]
    ELSE [ok |-> TRUE,
          val |-> [neg |-> FALSE,
                   mag |-> StripZeros([i \in 1..Len(chars) |-> HexVal(chars[i])])]]

\* a < b on magnitudes
MagLess(a, b) ==
    \/ Len(a) < Len(b)
    \/ /\ Len(a) = Len(b)
       /\ \E i \in 1..Len(a) :
            /\ a[i] < b[i]
            /\ \A j \in 1..(i - 1) : a[j] = b[j]

RECURSIVE SubDigits(_, _, _, _)
SubDigits(a, b, i, borrow) ==
    IF i = 0 THEN <<>>
    ELSE LET d == a[i] - b[i] - borrow
         IN  IF d < 0 THEN Append(SubDigits(a, b, i - 1, 1), d + 16)
             ELSE Append(SubDigits(a, b, i - 1, 0), d)

\* a - b on magnitudes, for a >= b
MagSub(a, b) ==
    LET bp == [i \in 1..(Len(a) - Len(b)) |-> 0] \o b
    IN  StripZeros(SubDigits(a, bp, Len(a), 0))

\* x - y on non-negative bigints
BigSub(x, y) ==
    IF MagLess(x.mag, y.mag)
    THEN [neg |-> TRUE, mag |-> MagSub(y.mag, x.mag)]
    ELSE [neg |-> FALSE, mag |-> MagSub(x.mag, y.mag)]

RECURSIVE HalfDigits(_, _, _)
HalfDigits(a, i, rem) ==
    IF i > Len(a) THEN <<>>
    ELSE LET cur == rem * 16 + a[i]
         IN  <<cur \div 2>> \o HalfDigits(a, i + 1, cur % 2)

\* x / 2n on a non-negative bigint
BigHalf(x) == [neg |-> FALSE, mag |-> StripZeros(HalfDigits(x.mag, 1, 0))]

\* x > y on non-negative bigints
BigGreater(x, y) == MagLess(y.mag, x.mag)

\* BigInt.prototype.toString(16)
BigToString16(x) ==
    (IF x.neg THEN <<"-">> ELSE <<>>)
      \o (IF x.mag = <<>> THEN <<"0">>
          ELSE [i \in 1..Len(x.mag) |-> HexDigits[x.mag[i] + 1]])

\* Number.prototype.toString(16), for 0 <= v < 256; NaN (-1) prints "NaN"
NumToString16(v) ==
    IF v < 0 THEN <<"N", "a", "N">>
    ELSE IF v < 16 THEN <<HexDigits[v + 1]>>
    ELSE <<HexDigits[(v \div 16) + 1], HexDigits[(v % 16) + 1]>>

RECURSIVE ParseHexPrefix(_, _)
ParseHexPrefix(chars, acc) ==
    IF chars = <<>> \/ chars[1] \notin HexChars THEN acc
    ELSE ParseHexPrefix(Tail(chars), acc * 16 + HexVal(chars[1]))

\* parseInt(chars, 16) on at most two characters: the longest hex prefix, NaN
\* (modelled as -1) when there is none.
ParseInt16(chars) ==
    IF chars = <<>> \/ chars[1] \notin HexChars THEN -1
    ELSE ParseHexPrefix(chars, 0)

(***************************************************************************)
(* src/signing/hash.ts: signature normalisation                            *)
(***************************************************************************)
SECP256K1_N_HEX ==
    <<"f","f","f","f","f","f","f","f","f","f","f","f","f","f","f","f",
      "f","f","f","f","f","f","f","f","f","f","f","f","f","f","f","e",
      "b","a","a","e","d","c","e","6","a","f","4","8","a","0","3","b",
      "b","f","d","2","5","e","8","c","d","0","3","6","4","1","4","1">>

SECP256K1_N == BigIntOfHex(SECP256K1_N_HEX).val

SECP256K1_HALF_N == BigHalf(SECP256K1_N)

parseRawSignature(signature) ==
    LET r == BigIntOfHex(Slice(signature, 0, 64))
        s == BigIntOfHex(Slice(signature, 64, 128))
        v == ParseInt16(Slice(signature, 128, 130))
    IN  [ok |-> r.ok /\ s.ok, r |-> r.val, s |-> s.val, v |-> v]

serializeRawSignature(r, s, v) ==
    PadStart(BigToString16(r), 64, "0")
      \o PadStart(BigToString16(s), 64, "0")
      \o PadStart(NumToString16(v), 2, "0")

\* [ok |-> FALSE] models the SyntaxError thrown by BigInt() while parsing.
normalizeSignature(signature) ==
    LET p == parseRawSignature(signature)
    IN  IF ~p.ok THEN [ok |-> FALSE, sig |-> <<>>]
        ELSE IF BigGreater(p.s, SECP256K1_HALF_N)
        THEN LET normalizedS == BigSub(SECP256K1_N, p.s)
                 normalizedV == IF p.v = 27 THEN 28 ELSE 27
             IN  [ok |-> TRUE,
                  sig |-> serializeRawSignature(p.r, normalizedS, normalizedV)]
        ELSE [ok |-> TRUE, sig |-> signature]

(***************************************************************************)
(* src/types/conversions.ts                                                *)
(***************************************************************************)
\* toTokenPermissions that copies the token and leaves the amount at zero
toTokenPermissionsTokenOnly(input) == [token |-> input.token, amount |-> 0]

toTokenPermissions(input) == [token |-> input.token, amount |-> input.amount]

toOutputObject(output) ==
    [token |-> output.token, amount |-> output.amount,
     recipient |-> output.recipient, chainId |-> output.chainId]

toTokenPermissionsArray(inputs) ==
    [i \in 1..Len(inputs) |-> toTokenPermissions(inputs[i])]

toOutputObjectArray(outputs) ==
    [i \in 1..Len(outputs) |-> toOutputObject(outputs[i])]

(***************************************************************************)
(* src/signing/hash.ts: the order hash.  ABI encodings are sequences of    *)
(* 32-byte words, each word given by the integer it holds.                 *)
(***************************************************************************)
RECURSIVE FlattenWords(_)
FlattenWords(tuples) ==
    IF tuples = <<>> THEN <<>> ELSE tuples[1] \o FlattenWords(Tail(tuples))

\* An address occupies one word, left-padded: the word holds the 20-byte value.
AddressWord(a) == a.id

\* encodeAbiParameters(PERMIT_BATCH_TRANSFER_FROM_ABI, [permit]): one dynamic
\* tuple (offset 0x20), whose head is (offset of permitted = 0x60, nonce,
\* deadline) and whose tail is the array: its length, then its static elements.
encodePermit(permit) ==
    <<32, 96, permit.nonce, permit.deadline, Len(permit.permitted)>>
      \o FlattenWords([i \in 1..Len(permit.permitted) |->
                          <<AddressWord(permit.permitted[i].token),
                            permit.permitted[i].amount>>])

\* encodeAbiParameters(ADDRESS_ABI, [owner])
encodeOwner(owner) == <<AddressWord(owner)>>

\* encodeAbiParameters(OUTPUTS_ABI, [outputs]): offset 0x20, length, elements.
encodeOutputs(outputs) ==
    <<32, Len(outputs)>>
      \o FlattenWords([i \in 1..Len(outputs) |->
                          <<AddressWord(outputs[i].token), outputs[i].amount,
                            AddressWord(outputs[i].recipient),
                            outputs[i].chainId>>])

\* viem's hexToBytes, as keccak256 applies it to a Hex argument: an odd-length
\* text is padded with one leading zero; a non-hex character throws.
HexToBytes(chars) ==
    LET h == IF Len(chars) % 2 = 1 THEN <<"0">> \o chars ELSE chars
    IN  IF \E i \in 1..Len(h) : h[i] \notin HexChars
        THEN [ok |-> FALSE, bytes |-> <<>>]
        ELSE [ok |-> TRUE,
              bytes |-> [i \in 1..(Len(h) \div 2) |->
                            16 * HexVal(h[2 * i - 1]) + HexVal(h[2 * i])]]

keccak256(bytes) == [keccak |-> bytes]

Threw == [ok |-> FALSE, val |-> <<>>]

\* orderHashPreImage with the signature hash left out of the pre-image
orderHashPreImageNoSig(order) ==
    LET permitEncoded == encodePermit(
            [permitted |-> toTokenPermissionsArray(order.permit.permit.permitted),
             nonce |-> order.permit.permit.nonce,
             deadline |-> order.permit.permit.deadline])
        permitHash == keccak256(permitEncoded)
        ownerHash == keccak256(encodeOwner(order.permit.owner))
        outputsHash == keccak256(encodeOutputs(toOutputObjectArray(order.outputs)))
    IN  [ok |-> TRUE, val |-> <<permitHash, ownerHash, outputsHash>>]

\* [ok |-> FALSE] when normalizeSignature or keccak256 throws.
orderHashPreImage(order) ==
    LET permitEncoded == encodePermit(
            [permitted |-> toTokenPermissionsArray(order.permit.permit.permitted),
             nonce |-> order.permit.permit.nonce,
             deadline |-> order.permit.permit.deadline])
        permitHash == keccak256(permitEncoded)
        ownerHash == keccak256(encodeOwner(order.permit.owner))
        outputsHash == keccak256(encodeOutputs(toOutputObjectArray(order.outputs)))
        normalizedSig == normalizeSignature(order.permit.signature)
        sigBytes == HexToBytes(normalizedSig.sig)
    IN  IF ~normalizedSig.ok \/ ~sigBytes.ok THEN Threw
        ELSE [ok |-> TRUE,
              val |-> <<permitHash, ownerHash, outputsHash,
                        keccak256(sigBytes.bytes)>>]

orderHash(order) ==
    LET pre == orderHashPreImage(order)
    IN  IF ~pre.ok THEN Threw ELSE [ok |-> TRUE, val |-> keccak256(pre.val)]

computeOrderHash(permit, outputs) ==
    orderHash([permit |-> permit, outputs |-> outputs])

(***************************************************************************)
(* Idle values: what each group of variables holds in a specification that *)
(* does not exercise it.                                                   *)
(***************************************************************************)
NoNorm == [done |-> FALSE, ok |-> FALSE, sig |-> <<>>]

NoHash == [done |-> FALSE, ok |-> FALSE, val |-> <<>>]

SigIdle ==
    /\ sigA = <<>> /\ sigB = <<>>
    /\ normA = NoNorm /\ normAA = NoNorm
    /\ hashA = NoHash /\ hashB = NoHash /\ hashN = NoHash

ValIdle ==
    /\ clockMs = 0 /\ vArtifact = <<>> /\ vKind = "none" /\ vResult = <<>>

FeasIdle ==
    /\ fOrder = <<>> /\ fChain = <<>> /\ fPc = "idle" /\ fIssues = <<>>
    /\ fReads = <<>> /\ fResult = <<>>

BldIdle ==
    /\ bKind = "none" /\ bInputs = <<>> /\ bOutputs = <<>> /\ bDeadline = <<>>
    /\ bNonce = <<>> /\ bChain = <<>> /\ bCall = <<>> /\ bArtifacts = {}
    /\ bSigns = 0 /\ bLast = <<>>

SeedIdle ==
    /\ seedA = <<>> /\ seedB = <<>> /\ seedNonceA = <<>> /\ seedNonceB = <<>>

SerIdle == serOrder = <<>> /\ serRaw = <<>> /\ serBack = <<>>

BunIdle == bunIn = <<>> /\ bunRaw = <<>> /\ bunBack = <<>>

ApIdle ==
    /\ apParams = <<>> /\ apAllowance = 0 /\ apPc = "idle" /\ apLog = <<>>
    /\ apResult = <<>>

FcIdle == fcAddress = <<>> /\ fcReply = <<>> /\ fcPc = "idle" /\ fcResult = <<>>

CoreIdle == SigIdle /\ ValIdle /\ FeasIdle /\ BldIdle /\ SeedIdle

OthersIdle == SerIdle /\ BunIdle /\ ApIdle /\ FcIdle

(***************************************************************************)
(* Signatures and order hashes: the inputs                                 *)
(***************************************************************************)
Repeat(n, c) == [i \in 1..n |-> c]

HexOfBig(x) == PadStart(BigToString16(x), 64, "0")

\* r: zero, and one value written in lower case and in upper case
RValues ==
    { Repeat(64, "0"),
      [i \in 1..64 |-> IF i % 2 = 1 THEN "a" ELSE "b"],
      [i \in 1..64 |-> IF i % 2 = 1 THEN "A" ELSE "B"] }

\* s: 0, 1, HALF_N, HALF_N + 1, N - 1, N, N + 1, 2^256 - 1
SValues ==
    { Repeat(64, "0"),
      Repeat(63, "0") \o <<"1">>,
      HexOfBig(SECP256K1_HALF_N),
      [HexOfBig(SECP256K1_HALF_N) EXCEPT ![64] = "1"],
      [SECP256K1_N_HEX EXCEPT ![64] = "0"],
      SECP256K1_N_HEX,
      [SECP256K1_N_HEX EXCEPT ![64] = "2"],
      Repeat(64, "f") }

\* v: 27, 28, and a byte that is neither
VValues == { <<"1", "b">>, <<"1", "c">>, <<"0", "0">> }

SigInputs == { r \o s \o v : r \in RValues, s \in SValues, v \in VValues }

\* the second order's signature: s in {1, HALF_N, N - 1, 2^256 - 1}, v in {27, 28}
SigInputsB ==
    { r \o s \o v :
        r \in RValues,
        s \in { Repeat(63, "0") \o <<"1">>,
                HexOfBig(SECP256K1_HALF_N),
                [SECP256K1_N_HEX EXCEPT ![64] = "0"],
                Repeat(64, "f") },
        v \in { <<"1", "b">>, <<"1", "c">> } }

Addr(n) == [id |-> n, form |-> "lower"]

BaseOrder(signature) ==
    [permit |->
        [permit |-> [permitted |-> <<[token |-> Addr(1), amount |-> 1000]>>,
                     nonce |-> 42, deadline |-> 1700000000],
         owner |-> Addr(2),
         signature |-> signature],
     outputs |-> <<[token |-> Addr(1), amount |-> 1000,
                    recipient |-> Addr(3), chainId |-> 1]>>]

SigInit ==
    /\ sigA \in SigInputs /\ sigB \in SigInputsB
    /\ normA = NoNorm /\ normAA = NoNorm
    /\ hashA = NoHash /\ hashB = NoHash /\ hashN = NoHash
    /\ ValIdle /\ FeasIdle /\ BldIdle /\ SeedIdle /\ OthersIdle

\* normalizeSignature(sigA)
Normalize ==
    /\ ~normA.done
    /\ LET n == normalizeSignature(sigA)
       IN  normA' = [done |-> TRUE, ok |-> n.ok, sig |-> n.sig]
    /\ UNCHANGED <<sigA, sigB, normAA, hashA, hashB, hashN, valVars, feasVars, bldVars, seedVars, otherVars>>

\* normalizeSignature applied to the value the first call returned
NormalizeAgain ==
    /\ normA.done /\ normA.ok /\ ~normAA.done
    /\ LET n == normalizeSignature(normA.sig)
       IN  normAA' = [done |-> TRUE, ok |-> n.ok, sig |-> n.sig]
    /\ UNCHANGED <<sigA, sigB, normA, hashA, hashB, hashN, valVars, feasVars, bldVars, seedVars, otherVars>>

\* orderHash of the order that carries sigA
HashOrderA ==
    /\ ~hashA.done
    /\ LET h == orderHash(BaseOrder(sigA))
       IN  hashA' = [done |-> TRUE, ok |-> h.ok, val |-> h.val]
    /\ UNCHANGED <<sigA, sigB, normA, normAA, hashB, hashN, valVars, feasVars, bldVars, seedVars, otherVars>>

\* orderHash of the order that is the same but for carrying sigB
HashOrderB ==
    /\ ~hashB.done
    /\ LET h == orderHash(BaseOrder(sigB))
       IN  hashB' = [done |-> TRUE, ok |-> h.ok, val |-> h.val]
    /\ UNCHANGED <<sigA, sigB, normA, normAA, hashA, hashN, valVars, feasVars, bldVars, seedVars, otherVars>>

\* orderHash of the order that is the same but for carrying the signature
\* normalizeSignature(sigA) returned
HashNormalized ==
    /\ normA.done /\ normA.ok /\ ~hashN.done
    /\ LET h == orderHash(BaseOrder(normA.sig))
       IN  hashN' = [done |-> TRUE, ok |-> h.ok, val |-> h.val]
    /\ UNCHANGED <<sigA, sigB, normA, normAA, hashA, hashB, valVars, feasVars,
                   bldVars, seedVars, otherVars>>

SigNext ==
    \/ Normalize
    \/ NormalizeAgain
    \/ HashOrderA
    \/ HashOrderB
    \/ HashNormalized

SigSpec == SigInit /\ [][SigNext]_vars

(***************************************************************************)
(* Signatures and order hashes: the properties                             *)
(***************************************************************************)
WellFormed65(sig) ==
    Len(sig) = 130 /\ \A i \in 1..Len(sig) : sig[i] \in HexChars

VIs27Or28(sig) == parseRawSignature(sig).v \in {27, 28}

\* the 65 bytes normalizeSignature returns, when it returns 65 bytes
NormalizedBytes(sig) ==
    LET n == normalizeSignature(sig)
    IN  IF n.ok THEN HexToBytes(n.sig) ELSE [ok |-> FALSE, bytes |-> <<>>]

BothHashed == hashA.done /\ hashB.done

SameHashReturned == hashA.ok /\ hashB.ok /\ hashA.val = hashB.val

\* C2 as stated: two orders equal in every field but the signature, whose
\* 65-byte signatures differ, never get the same orderHash.
C2_DifferentSignaturesDifferentHashes ==
    (BothHashed /\ HexToBytes(sigA).bytes # HexToBytes(sigB).bytes)
        => ~SameHashReturned

\* C2 amended: two orders equal in every field but the signature, whose
\* signatures still differ as 65-byte strings after normalizeSignature, never
\* get the same orderHash.
C2_DistinctNormalizedSignaturesDistinctHashes ==
    (BothHashed /\ NormalizedBytes(sigA) # NormalizedBytes(sigB))
        => ~SameHashReturned

C2_Witness ==
    /\ BothHashed /\ hashA.ok /\ hashB.ok
    /\ NormalizedBytes(sigA) # NormalizedBytes(sigB)
    /\ hashA.val # hashB.val

\* C3: for v in {27, 28} and any 256-bit r and s, normalizeSignature returns
\* a well-formed 65-byte signature whose s is at most HALF_N.
C3_NormalizedIsLowS ==
    (normA.done /\ VIs27Or28(sigA))
        => /\ normA.ok
           /\ WellFormed65(normA.sig)
           /\ ~BigGreater(parseRawSignature(normA.sig).s, SECP256K1_HALF_N)

\* C4: normalizeSignature(normalizeSignature(sig)) = normalizeSignature(sig)
\* for every 65-byte signature.
C4_NormalizeIdempotent ==
    normAA.done => (normAA.ok /\ normAA.sig = normA.sig)

\* C5: for v in {27, 28}: when s > HALF_N the result is (r, N - s, v flipped),
\* r unchanged; when s <= HALF_N the result is the input, byte for byte.
C5_CanonicalizationCorrect ==
    (normA.done /\ VIs27Or28(sigA))
        => LET p == parseRawSignature(sigA)
               q == parseRawSignature(normA.sig)
           IN  IF BigGreater(p.s, SECP256K1_HALF_N)
               THEN /\ normA.ok /\ WellFormed65(normA.sig)
                    /\ q.r = p.r
                    /\ q.s = BigSub(SECP256K1_N, p.s)
                    /\ q.v = (IF p.v = 27 THEN 28 ELSE 27)
               ELSE normA.ok /\ normA.sig = sigA

\* C28: orderHash is invariant under signature canonicalization: for every
\* signed order with a 65-byte signature, orderHash of the order equals
\* orderHash of the order that differs only in carrying
\* normalizeSignature(signature) as its signature.  Both calls return, and
\* they return the same hash.
NormalizedHashed ==
    /\ normA.done /\ hashA.done
    /\ (normA.ok => hashN.done)
C28_HashInvariantUnderCanonicalization ==
    NormalizedHashed =>
        /\ normA.ok /\ hashA.ok /\ hashN.ok
        /\ hashN.val = hashA.val

(***************************************************************************)
(* src/utils/time.ts and src/signing/validate.ts                           *)
(***************************************************************************)
MsPerSecond == 1000

\* Math.round in place of Math.floor
nowSecondsRounded(ms) == (ms + 500) \div 1000

\* BigInt(Math.floor(Date.now() / 1000)), ms being Date.now()
nowSeconds(ms) == ms \div MsPerSecond

\* viem's isAddressEqual: the addresses compared in lower case
isAddressEqual(a, b) == a.id = b.id

\* what new Error(message) constructs: the name is Error.prototype.name, and
\* no code is set on it
NewError(message) == [name |-> "Error", message |-> message, code |-> "undefined"]

NoError == [name |-> "", message |-> "", code |-> "undefined"]

\* msg is the message up to its first colon; index and now are the numbers
\* the message goes on with
Passed(now) ==
    [ok |-> TRUE, msg |-> "", index |-> -1, now |-> now, error |-> NoError]

Thrown(msg, index, now) ==
    [ok |-> FALSE, msg |-> msg, index |-> index, now |-> now,
     error |-> NewError(msg)]

validateOrder(order, ms) ==
    LET now == nowSeconds(ms)
    IN  IF order.permit.permit.deadline < now
        THEN Thrown("Order expired", -1, now)
        ELSE Passed(now)

\* validateFill with the amount comparison left out
validateFillNoAmount(fill, ms) ==
    LET now == nowSeconds(ms)
        permitted == fill.permit.permit.permitted
        outputs == fill.outputs
        bad == { i \in 1..Len(outputs) :
                    ~isAddressEqual(outputs[i].token, permitted[i].token) }
    IN  IF fill.permit.permit.deadline < now
        THEN Thrown("Fill expired", -1, now)
        ELSE IF Len(outputs) # Len(permitted)
        THEN Thrown("Length mismatch", -1, now)
        ELSE IF bad = {} THEN Passed(now)
        ELSE Thrown("Token mismatch",
                    (CHOOSE i \in bad : \A j \in bad : i <= j) - 1, now)

\* validateFill with two passes over the outputs: every token is compared
\* before any amount is
validateFillTokensFirst(fill, ms) ==
    LET now == nowSeconds(ms)
        permitted == fill.permit.permit.permitted
        outputs == fill.outputs
        badToken == { i \in 1..Len(outputs) :
                        ~isAddressEqual(outputs[i].token, permitted[i].token) }
        badAmount == { i \in 1..Len(outputs) :
                        outputs[i].amount # permitted[i].amount }
    IN  IF fill.permit.permit.deadline < now
        THEN Thrown("Fill expired", -1, now)
        ELSE IF Len(outputs) # Len(permitted)
        THEN Thrown("Length mismatch", -1, now)
        ELSE IF badToken # {}
        THEN Thrown("Token mismatch",
                    (CHOOSE i \in badToken : \A j \in badToken : i <= j) - 1, now)
        ELSE IF badAmount # {}
        THEN Thrown("Amount mismatch",
                    (CHOOSE i \in badAmount : \A j \in badAmount : i <= j) - 1, now)
        ELSE Passed(now)

\* The index in the message is the 0-based index of the forEach callback that
\* threw: the first index at which either comparison fails.
validateFill(fill, ms) ==
    LET now == nowSeconds(ms)
        permitted == fill.permit.permit.permitted
        outputs == fill.outputs
        bad == { i \in 1..Len(outputs) :
                    \/ ~isAddressEqual(outputs[i].token, permitted[i].token)
                    \/ outputs[i].amount # permitted[i].amount }
    IN  IF fill.permit.permit.deadline < now
        THEN Thrown("Fill expired", -1, now)
        ELSE IF Len(outputs) # Len(permitted)
        THEN Thrown("Length mismatch", -1, now)
        ELSE IF bad = {} THEN Passed(now)
        ELSE LET i == CHOOSE k \in bad : \A j \in bad : k <= j
             IN  IF ~isAddressEqual(outputs[i].token, permitted[i].token)
                 THEN Thrown("Token mismatch", i - 1, now)
                 ELSE Thrown("Amount mismatch", i - 1, now)

(***************************************************************************)
(* Validation: the inputs and the specification                            *)
(***************************************************************************)
MaxLen == 2

MaxSeconds == 2

TickMs == 500

SeqsUpTo(S, n) == UNION { [1..k -> S] : k \in 0..n }

\* one token written in lower case and with its checksum capitals, and another
ValTokens ==
    { [id |-> 1, form |-> "lower"], [id |-> 1, form |-> "checksum"],
      [id |-> 2, form |-> "lower"] }

ValAmounts == {1, 2}

ValPermitted ==
    SeqsUpTo([token : {[id |-> 1, form |-> "lower"], [id |-> 2, form |-> "lower"]},
              amount : {1}], MaxLen)

ValOutputs ==
    SeqsUpTo([token : ValTokens, amount : ValAmounts,
              recipient : {Addr(3)}, chainId : {1}], MaxLen)

\* "0x00", the signature the validation tests use: validation never reads it
UnsignedSignature == <<"0", "0">>

ValArtifacts ==
    { [permit |-> [permit |-> [permitted |-> p, nonce |-> 1, deadline |-> d],
                   owner |-> Addr(2), signature |-> UnsignedSignature],
       outputs |-> o] :
        p \in ValPermitted, o \in ValOutputs, d \in 0..(MaxSeconds + 1) }

NoValidation ==
    [done |-> FALSE, at |-> 0, ok |-> FALSE, msg |-> "", index |-> -1, now |-> 0,
     error |-> NoError]

\* a call's outcome, with the value Date.now() had at the call
Recorded(res, ms) ==
    [done |-> TRUE, at |-> ms, ok |-> res.ok, msg |-> res.msg,
     index |-> res.index, now |-> res.now, error |-> res.error]

ValInit ==
    /\ clockMs = 0 /\ vArtifact \in ValArtifacts /\ vKind = "none"
    /\ vResult = NoValidation
    /\ SigIdle /\ FeasIdle /\ BldIdle /\ SeedIdle /\ OthersIdle

\* time passes
ValTick ==
    /\ clockMs + TickMs < (MaxSeconds + 1) * MsPerSecond
    /\ clockMs' = clockMs + TickMs
    /\ UNCHANGED <<vArtifact, vKind, vResult, sigVars, feasVars, bldVars, seedVars, otherVars>>

\* validateOrder(vArtifact), called now
DoValidateOrder ==
    /\ vKind' = "order"
    /\ vResult' = Recorded(validateOrder(vArtifact, clockMs), clockMs)
    /\ UNCHANGED <<clockMs, vArtifact, sigVars, feasVars, bldVars, seedVars, otherVars>>

\* validateFill(vArtifact), called now
DoValidateFill ==
    /\ vKind' = "fill"
    /\ vResult' = Recorded(validateFill(vArtifact, clockMs), clockMs)
    /\ UNCHANGED <<clockMs, vArtifact, sigVars, feasVars, bldVars, seedVars, otherVars>>

ValNext == ValTick \/ DoValidateOrder \/ DoValidateFill

ValSpec == ValInit /\ [][ValNext]_vars

(***************************************************************************)
(* Validation: the properties                                              *)
(***************************************************************************)
FillValidated == vResult.done /\ vKind = "fill"

VDeadline == vArtifact.permit.permit.deadline

VPermitted == vArtifact.permit.permit.permitted

\* the 1-based positions at which output and permitted entry disagree
TokenMismatches ==
    { i \in 1..Len(vArtifact.outputs) :
        i <= Len(VPermitted) /\ vArtifact.outputs[i].token.id # VPermitted[i].token.id }

AmountMismatches ==
    { i \in 1..Len(vArtifact.outputs) :
        i <= Len(VPermitted) /\ vArtifact.outputs[i].amount # VPermitted[i].amount }

RejectedExpired == ~vResult.ok /\ vResult.msg \in {"Order expired", "Fill expired"}

\* C6: validateFill on a fill that is not expired fails exactly when the
\* lengths differ or some index differs in token or amount, and a token or
\* amount error names an index at which that mismatch occurs.
C6_FillCoupling ==
    (FillValidated /\ ~RejectedExpired)
        => /\ ~vResult.ok <=>
                \/ Len(vArtifact.outputs) # Len(VPermitted)
                \/ TokenMismatches # {}
                \/ AmountMismatches # {}
           /\ vResult.msg = "Token mismatch" => (vResult.index + 1) \in TokenMismatches
           /\ vResult.msg = "Amount mismatch" => (vResult.index + 1) \in AmountMismatches
           /\ (Len(vArtifact.outputs) = Len(VPermitted) /\ ~vResult.ok)
                => vResult.msg \in {"Token mismatch", "Amount mismatch"}

C6_Witness ==
    /\ FillValidated /\ ~vResult.ok
    /\ vResult.msg = "Amount mismatch" /\ vResult.index = 1
    /\ TokenMismatches = {}

\* C7: an artifact is rejected as expired exactly when its deadline, in
\* seconds, lies before the whole second the clock stood in at the call.
C7_ExpiredIffDeadlineBeforeNow ==
    vResult.done
        => /\ RejectedExpired <=> (VDeadline + 1) * MsPerSecond <= vResult.at
           /\ RejectedExpired =>
                vResult.msg = (IF vKind = "order" THEN "Order expired" ELSE "Fill expired")

C7_Witness ==
    /\ vResult.done /\ ~RejectedExpired
    /\ vResult.at > VDeadline * MsPerSecond
    /\ vResult.at < (VDeadline + 1) * MsPerSecond

\* C30: validateFill reports exactly one error, chosen by a fixed precedence:
\* an expired deadline before a length mismatch, a length mismatch before any
\* per-index check, among the per-index mismatches the one at the smallest
\* index, and at one index the token mismatch before the amount mismatch.
FillExpiredAtCall == (VDeadline + 1) * MsPerSecond <= vResult.at

FillLengthsDiffer == Len(vArtifact.outputs) # Len(VPermitted)

FirstMismatch ==
    CHOOSE i \in TokenMismatches \cup AmountMismatches :
        \A j \in TokenMismatches \cup AmountMismatches : i <= j

C30_FillErrorPrecedence ==
    FillValidated =>
        IF FillExpiredAtCall
        THEN ~vResult.ok /\ vResult.msg = "Fill expired"
        ELSE IF FillLengthsDiffer
        THEN ~vResult.ok /\ vResult.msg = "Length mismatch"
        ELSE IF TokenMismatches \cup AmountMismatches = {}
        THEN vResult.ok
        ELSE /\ ~vResult.ok
             /\ vResult.index + 1 = FirstMismatch
             /\ vResult.msg = (IF FirstMismatch \in TokenMismatches
                               THEN "Token mismatch" ELSE "Amount mismatch")

\* an amount mismatch at index 0 is reported although index 1 holds another
\* token
C30_Witness ==
    /\ FillValidated /\ ~FillExpiredAtCall /\ ~FillLengthsDiffer
    /\ TokenMismatches = {2} /\ AmountMismatches = {1}
    /\ vResult.msg = "Amount mismatch" /\ vResult.index = 0

\* C24: every fatal error of validation (expired deadline, fill length
\* mismatch, fill token mismatch, fill amount mismatch) carries, besides its
\* message, a code or a kind of its own that tells its category.
C24_ErrorsCarryCodeOrKind ==
    (vResult.done /\ ~vResult.ok)
        => \/ vResult.error.code # "undefined"
           \/ vResult.error.name # "Error"

(***************************************************************************)
(* src/signing/nonce.ts and src/signing/feasibility.ts                     *)
(*                                                                         *)
(* The chain is a record: bitmap[owner][wordPosition], the set of the bits *)
(* set in that nonceBitmap word; balance[token] and allowance[token], what *)
(* balanceOf(owner) and allowance(owner, PERMIT2) return for the order's   *)
(* owner.  A read is "unissued", "pending", "ok" or "failed"; fReads.words  *)
(* lists the keys of the nonceBitmap words that were read.                 *)
(***************************************************************************)
\* the word and the bit isNonceUsed looks at: nonce >> 8n and nonce & 0xffn
wordPosition(nonce) == nonce \div 256

\* nonce & 0xffn with the shift of wordPosition in its place
bitPositionShifted(nonce) == nonce \div 256

bitPosition(nonce) == nonce % 256

\* args: [owner, wordPosition] of the nonceBitmap read
nonceBitmapArgs(owner, nonce) == [owner |-> owner, word |-> wordPosition(nonce)]

\* (bitmap & (1n << bitPosition)) !== 0n, for the word the read returned
isNonceUsed(chain, owner, nonce) ==
    LET args == nonceBitmapArgs(owner, nonce)
    IN  bitPosition(nonce) \in chain.bitmap[args.owner.id][args.word]

NoToken == [id |-> 0, form |-> "none"]

\* the issues hold -1 and NoToken where the code leaves a field out
DeadlineIssue ==
    [type |-> "deadline_expired", token |-> NoToken, required |-> -1, available |-> -1]

NonceIssue ==
    [type |-> "nonce_used", token |-> NoToken, required |-> -1, available |-> -1]

\* the balance check and the allowance check chained with else-if
TokenIssuesElseIf(token, balance, allowance) ==
    IF balance < token.amount
    THEN <<[type |-> "insufficient_balance", token |-> token.token,
            required |-> token.amount, available |-> balance]>>
    ELSE IF allowance < token.amount
    THEN <<[type |-> "insufficient_allowance", token |-> token.token,
            required |-> token.amount, available |-> allowance]>>
    ELSE <<>>

\* what one token's check pushes once both of its reads have returned
TokenIssues(token, balance, allowance) ==
    (IF balance < token.amount
     THEN <<[type |-> "insufficient_balance", token |-> token.token,
             required |-> token.amount, available |-> balance]>>
     ELSE <<>>)
    \o
    (IF allowance < token.amount
     THEN <<[type |-> "insufficient_allowance", token |-> token.token,
             required |-> token.amount, available |-> allowance]>>
     ELSE <<>>)

\* Promise.allSettled in place of Promise.all: a failed read rejects nothing
ReadsRejectedNever(reads) == FALSE

\* Promise.all over the checks, each a Promise.all over its two reads:
\* rejected as soon as one read has failed
ReadsRejected(reads) ==
    \E i \in 1..Len(reads.balance) :
        reads.balance[i] = "failed" \/ reads.allowance[i] = "failed"

\* resolved once one check has resolved
ReadsResolvedAny(reads) ==
    \/ Len(reads.balance) = 0
    \/ \E i \in 1..Len(reads.balance) :
            reads.balance[i] = "ok" /\ reads.allowance[i] = "ok"

\* resolved once every check has resolved, that is once every read returned
ReadsResolved(reads) ==
    \A i \in 1..Len(reads.balance) :
        reads.balance[i] = "ok" /\ reads.allowance[i] = "ok"

FeasibilityResult(issues) ==
    [settled |-> "returned", feasible |-> Len(issues) = 0, issues |-> issues]

FeasibilityError == [settled |-> "rejected", feasible |-> FALSE, issues |-> <<>>]

FeasibilityPending == [settled |-> "pending", feasible |-> FALSE, issues |-> <<>>]

(***************************************************************************)
(* Feasibility: the inputs and the specification                           *)
(***************************************************************************)
MaxTokens == 2

FeasTokens == {Addr(1), Addr(2)}

FeasOwner == Addr(2)

FeasOrders ==
    { [permit |-> [permit |-> [permitted |-> p, nonce |-> n, deadline |-> d],
                   owner |-> FeasOwner, signature |-> UnsignedSignature],
       outputs |-> <<>>] :
        p \in SeqsUpTo([token : FeasTokens, amount : {100}], MaxTokens),
        n \in {1, 257, 258},
        d \in {0, 1} }

\* no nonce used; nonce 1 of the owner used; nonce 257 of the owner and
\* nonce 1 of another account used
ChainBitmaps ==
    { [o \in {2, 4} |-> [w \in 0..1 |-> {}]],
      [o \in {2, 4} |-> [w \in 0..1 |-> IF o = 2 /\ w = 0 THEN {1} ELSE {}]],
      [o \in {2, 4} |-> [w \in 0..1 |->
            IF (o = 2 /\ w = 1) \/ (o = 4 /\ w = 0) THEN {1} ELSE {}]] }

Chains ==
    [bitmap : ChainBitmaps,
     balance : [{1, 2} -> {50, 100}],
     allowance : [{1, 2} -> {50, 100}]]

Unissued(n) == [nonce |-> "unissued", words |-> <<>>,
                balance |-> Repeat(n, "unissued"),
                allowance |-> Repeat(n, "unissued")]

FeasInit ==
    /\ fOrder \in FeasOrders
    /\ fChain \in Chains
    /\ clockMs = 1500
    /\ fPc = "idle"
    /\ fIssues = <<>>
    /\ fReads = Unissued(Len(fOrder.permit.permit.permitted))
    /\ fResult = FeasibilityPending
    /\ vArtifact = <<>> /\ vKind = "none" /\ vResult = <<>>
    /\ SigIdle /\ BldIdle /\ SeedIdle /\ OthersIdle

FPermitted == fOrder.permit.permit.permitted

FeasUnchanged ==
    UNCHANGED <<fOrder, fChain, sigVars, valVars, bldVars, seedVars, otherVars>>

\* checkOrderFeasibility(client, fOrder) up to its first await: the deadline
\* check, then the nonceBitmap read is issued
FeasCall ==
    /\ fPc = "idle"
    /\ fIssues' = IF fOrder.permit.permit.deadline < nowSeconds(clockMs)
                  THEN <<DeadlineIssue>> ELSE <<>>
    /\ fReads' = [fReads EXCEPT
                    !.nonce = "pending",
                    !.words = Append(@, nonceBitmapArgs(fOrder.permit.owner,
                                                        fOrder.permit.permit.nonce))]
    /\ fPc' = "awaitNonce"
    /\ UNCHANGED fResult
    /\ FeasUnchanged

\* the nonceBitmap read fails: isNonceUsed rejects, and so does the call
NonceReadFails ==
    /\ fPc = "awaitNonce" /\ fReads.nonce = "pending"
    /\ fReads' = [fReads EXCEPT !.nonce = "failed"]
    /\ fPc' = "rejected"
    /\ fResult' = FeasibilityError
    /\ UNCHANGED fIssues
    /\ FeasUnchanged

\* the nonceBitmap read returns: the nonce check, then tokens.map issues every
\* balanceOf and allowance read and the call awaits Promise.all(checks)
NonceReadReturns ==
    /\ fPc = "awaitNonce" /\ fReads.nonce = "pending"
    /\ LET issues == IF isNonceUsed(fChain, fOrder.permit.owner,
                                    fOrder.permit.permit.nonce)
                     THEN Append(fIssues, NonceIssue) ELSE fIssues
           n == Len(FPermitted)
           reads == [nonce |-> "ok", words |-> fReads.words,
                     balance |-> Repeat(n, "pending"),
                     allowance |-> Repeat(n, "pending")]
       IN  /\ fIssues' = issues
           /\ fReads' = reads
           /\ IF n = 0
              THEN fPc' = "returned" /\ fResult' = FeasibilityResult(issues)
              ELSE fPc' = "awaitTokens" /\ UNCHANGED fResult
    /\ FeasUnchanged

\* a balanceOf or allowance read fails: its check rejects, and Promise.all
\* rejects the call unless it is settled already
TokenReadFails ==
    \E i \in 1..Len(FPermitted), kind \in {"balance", "allowance"} :
        /\ fReads[kind][i] = "pending"
        /\ LET reads == [fReads EXCEPT ![kind][i] = "failed"]
           IN  /\ fReads' = reads
               /\ IF fPc = "awaitTokens" /\ ReadsRejected(reads)
                  THEN fPc' = "rejected" /\ fResult' = FeasibilityError
                  ELSE UNCHANGED <<fPc, fResult>>
        /\ UNCHANGED fIssues
        /\ FeasUnchanged

\* a balanceOf or allowance read returns; when it is the second read of its
\* token the check's continuation pushes that token's issues, and when every
\* check has resolved the call returns
TokenReadReturns ==
    \E i \in 1..Len(FPermitted), kind \in {"balance", "allowance"} :
        /\ fReads[kind][i] = "pending"
        /\ LET reads == [fReads EXCEPT ![kind][i] = "ok"]
               both == reads.balance[i] = "ok" /\ reads.allowance[i] = "ok"
               token == FPermitted[i]
               issues == IF both
                         THEN fIssues \o TokenIssues(token,
                                            fChain.balance[token.token.id],
                                            fChain.allowance[token.token.id])
                         ELSE fIssues
           IN  /\ fReads' = reads
               /\ fIssues' = issues
               /\ IF fPc = "awaitTokens" /\ ~ReadsRejected(reads) /\ ReadsResolved(reads)
                  THEN fPc' = "returned" /\ fResult' = FeasibilityResult(issues)
                  ELSE UNCHANGED <<fPc, fResult>>
        /\ FeasUnchanged

FeasNext ==
    \/ FeasCall
    \/ NonceReadFails
    \/ NonceReadReturns
    \/ TokenReadFails
    \/ TokenReadReturns

FeasSpec == FeasInit /\ [][FeasNext]_vars

(***************************************************************************)
(* Feasibility: the properties                                             *)
(***************************************************************************)
FReturned == fResult.settled = "returned"

TokenReadStates ==
    { fReads.balance[i] : i \in 1..Len(fReads.balance) }
        \cup { fReads.allowance[i] : i \in 1..Len(fReads.allowance) }

AllReadStates == {fReads.nonce} \cup TokenReadStates

\* the checks that fail on the chain as it stands, stated on the chain itself
DeadlineFails == (fOrder.permit.permit.deadline + 1) * MsPerSecond <= clockMs

NonceFails ==
    \E w \in 0..1, b \in 0..255 :
        /\ fOrder.permit.permit.nonce = 256 * w + b
        /\ b \in fChain.bitmap[fOrder.permit.owner.id][w]

ShortEntries(have, t) ==
    { i \in 1..Len(FPermitted) :
        FPermitted[i].token = t /\ have[t.id] < FPermitted[i].amount }

IssuesOf(issues, type, t) ==
    { k \in 1..Len(issues) : issues[k].type = type /\ issues[k].token = t }

\* C8: feasible exactly when there are no issues, and the issues are one
\* for every failing check: deadline, nonce, and balance and allowance of
\* every permitted entry, each with the required and the available amount.
C8_AllFailingChecksReported ==
    FReturned =>
        LET issues == fResult.issues
        IN  /\ fResult.feasible <=> issues = <<>>
            /\ Cardinality(IssuesOf(issues, "deadline_expired", NoToken))
                 = (IF DeadlineFails THEN 1 ELSE 0)
            /\ Cardinality(IssuesOf(issues, "nonce_used", NoToken))
                 = (IF NonceFails THEN 1 ELSE 0)
            /\ \A t \in FeasTokens :
                 /\ Cardinality(IssuesOf(issues, "insufficient_balance", t))
                      = Cardinality(ShortEntries(fChain.balance, t))
                 /\ Cardinality(IssuesOf(issues, "insufficient_allowance", t))
                      = Cardinality(ShortEntries(fChain.allowance, t))
            /\ \A k \in 1..Len(issues) :
                 /\ issues[k].type \in {"deadline_expired", "nonce_used",
                                        "insufficient_balance", "insufficient_allowance"}
                 /\ issues[k].type = "insufficient_balance"
                      => /\ issues[k].available = fChain.balance[issues[k].token.id]
                         /\ issues[k].required > issues[k].available
                 /\ issues[k].type = "insufficient_allowance"
                      => /\ issues[k].available = fChain.allowance[issues[k].token.id]
                         /\ issues[k].required > issues[k].available

C8_Witness ==
    /\ FReturned /\ ~fResult.feasible
    /\ DeadlineFails /\ NonceFails
    /\ \E t \in FeasTokens :
         ShortEntries(fChain.balance, t) # {} /\ ShortEntries(fChain.allowance, t) # {}
    /\ Len(fResult.issues) >= 4

C10_FailedReadRejects ==
    "failed" \in AllReadStates => fResult.settled = "rejected"

C10_Witness ==
    /\ fResult.settled = "rejected"
    /\ fReads.nonce = "ok"
    /\ \E i \in 1..Len(FPermitted) :
         fReads.balance[i] = "ok" /\ fReads.allowance[i] = "ok"
    /\ \E i \in 1..Len(FPermitted) : fReads.allowance[i] = "failed"
    /\ fIssues # <<>>

\* C11: balance and allowance are judged once for each distinct permitted
\* token: a returned result holds at most one insufficient_balance issue and
\* at most one insufficient_allowance issue for a token, also when the
\* permitted list names that token in more than one entry.
C11_OneIssuePerDistinctToken ==
    FReturned =>
        \A t \in FeasTokens :
            /\ Cardinality(IssuesOf(fResult.issues, "insufficient_balance", t)) <= 1
            /\ Cardinality(IssuesOf(fResult.issues, "insufficient_allowance", t)) <= 1

\* C29: the result of checkOrderFeasibility does not depend on the order in
\* which the concurrent balance and allowance reads complete: over one chain
\* state every interleaving returns the same feasible flag and the same
\* issues up to their order, namely the issues of the checks taken one after
\* another, and deadline_expired and nonce_used stand before every token
\* issue.
IssueBag(issues) ==
    [x \in { issues[k] : k \in 1..Len(issues) } |->
        Cardinality({ k \in 1..Len(issues) : issues[k] = x })]

RECURSIVE EntryIssuesFrom(_)
EntryIssuesFrom(i) ==
    IF i > Len(FPermitted) THEN <<>>
    ELSE TokenIssues(FPermitted[i], fChain.balance[FPermitted[i].token.id],
                     fChain.allowance[FPermitted[i].token.id])
           \o EntryIssuesFrom(i + 1)

IssuesInEntryOrder ==
    (IF DeadlineFails THEN <<DeadlineIssue>> ELSE <<>>)
      \o (IF NonceFails THEN <<NonceIssue>> ELSE <<>>)
      \o EntryIssuesFrom(1)

C29_ResultIndependentOfReadOrder ==
    FReturned =>
        /\ fResult.feasible = (IssuesInEntryOrder = <<>>)
        /\ IssueBag(fResult.issues) = IssueBag(IssuesInEntryOrder)
        /\ \A j, k \in 1..Len(fResult.issues) :
             (fResult.issues[j].token = NoToken /\ fResult.issues[k].token # NoToken)
                => j < k

\* the reads of the second entry returned first: its issues stand before the
\* first entry's, behind deadline_expired and nonce_used
C29_Witness ==
    /\ FReturned
    /\ DeadlineFails /\ NonceFails
    /\ Len(fResult.issues) = 6
    /\ FPermitted[1].token # FPermitted[2].token
    /\ fResult.issues[3].token = FPermitted[2].token
    /\ fResult.issues[5].token = FPermitted[1].token
    /\ fResult.issues # IssuesInEntryOrder

\* C19: isNonceUsed reads one bitmap word, the word of the owner whose number
\* w has 256 * w <= nonce < 256 * (w + 1), and answers true exactly when the
\* bit nonce - 256 * w of that word is set.
C19_NonceWordAndBit ==
    LET nonce == fOrder.permit.permit.nonce
        owner == fOrder.permit.owner
    IN  \A w \in 0..1 :
            (256 * w <= nonce /\ nonce < 256 * (w + 1))
                => /\ fReads.nonce # "unissued"
                        => fReads.words = <<[owner |-> owner, word |-> w]>>
                   /\ fReads.nonce = "ok"
                        => (NonceIssue \in { fIssues[k] : k \in 1..Len(fIssues) }
                              <=> (nonce - 256 * w) \in fChain.bitmap[owner.id][w])

\* the nonce's bit is clear in the owner's word although the same bit is set
\* in another word of the owner or in the word of another account
C19_Witness ==
    /\ fReads.nonce = "ok"
    /\ fOrder.permit.permit.nonce = 1
    /\ 1 \in fChain.bitmap[2][1] /\ 1 \in fChain.bitmap[4][0]
    /\ NonceIssue \notin { fIssues[k] : k \in 1..Len(fIssues) }

(***************************************************************************)
(* src/signing/order.ts, src/signing/fill.ts, src/signing/permit2.ts: the  *)
(* builders.  bKind tells which class the builder is an instance of.       *)
(* bInputs and bOutputs are the array objects _inputs and _outputs; an     *)
(* artifact whose outputs field is OutputsRef holds that same array object *)
(* and not a copy.  A field of type bigint | undefined is a record         *)
(* [def, val].  bCall is a sign call suspended at its await, bArtifacts   *)
(* the artifacts sign has returned, bSigns the number of sign calls made   *)
(* and bLast the outcome of the latest of them.                            *)
(***************************************************************************)
Undefined == [def |-> FALSE, val |-> 0]

Defined(v) == [def |-> TRUE, val |-> v]

NoChain == [def |-> FALSE, chainId |-> 0, orderContract |-> NoToken]

NoAccount == [kind |-> "none", address |-> NoToken]

OutputsRef == [ref |-> "_outputs"]

NoClient == [account |-> NoAccount]

\* the outcome of a sign call: its result ("pending" while suspended,
\* "returned", or the message of the error it threw), whether randomNonce()
\* was called, how many times the wallet was asked to sign, and the error the
\* wallet threw ("none" when it threw none)
NoOutcome ==
    [result |-> "none", drewNonce |-> FALSE, signerCalls |-> 0,
     signerError |-> "none"]

\* the frame of a suspended sign call: its arguments client and account and
\* its local constants
NoCall ==
    [active |-> FALSE, client |-> NoClient, account |-> NoAccount,
     nonce |-> 0, deadline |-> 0, signer |-> NoAccount,
     owner |-> NoToken, permitted |-> <<>>, signed |-> <<>>]

\* what the wallet signs: the typed-data message under the Permit2 domain
TypedData(chainId, permitted, spender, nonce, deadline, outputs) ==
    [chainId |-> chainId, permitted |-> permitted, spender |-> spender,
     nonce |-> nonce, deadline |-> deadline,
     outputs |-> toOutputObjectArray(outputs)]

\* a signature is known by the address of the account the wallet signed with
\* and by what was signed
SignatureOf(signer, data) == [signer |-> signer.address, data |-> data]

\* this._chainId === undefined || this._orderContract === undefined, with the
\* check left out
chainMissingNever(chain) == FALSE

\* this._chainId === undefined || this._orderContract === undefined
chainMissing(chain) == ~chain.def

\* this._nonce ?? randomNonce(), with the nonce that was set ignored
signNonceRandom(nonce, random) == [val |-> random, drew |-> TRUE]

\* this._nonce ?? randomNonce(): random is what randomNonce() returns if called
signNonce(nonce, random) ==
    IF nonce.def THEN [val |-> nonce.val, drew |-> FALSE]
    ELSE [val |-> random, drew |-> TRUE]

\* the error of the awaited wallet call replaced by an error of sign's own
signFailureWrapped(error) == "Signing failed"

\* the awaited wallet call is in no try block: what it throws, sign throws
signFailure(error) == error

\* client.account ?? account: the operands of ?? the other way round
resolveAccountClientFirst(client, account) ==
    LET signerAccount == IF client.account.kind # "none" THEN client.account
                         ELSE account
    IN  [ok |-> signerAccount.kind # "none",
         signerAccount |-> signerAccount,
         ownerAddress |-> signerAccount.address]

\* account ?? client.account, and the owner address of the account found
resolveAccount(client, account) ==
    LET signerAccount == IF account.kind # "none" THEN account ELSE client.account
    IN  [ok |-> signerAccount.kind # "none",
         signerAccount |-> signerAccount,
         ownerAddress |-> signerAccount.address]

\* the fill deadline when none was set: Math.floor(Date.now() / 1000) + 12
FillSlotSeconds == 12

\* this._deadline ?? BigInt(Math.floor(Date.now() / 1000) + 12)
fillDeadline(deadline, ms) ==
    IF deadline.def THEN deadline.val ELSE nowSeconds(ms) + FillSlotSeconds

\* the value an artifact shows to a reader now: its outputs field followed to
\* the array it refers to
Deref(artifact) == [artifact EXCEPT !.outputs = bOutputs]

(***************************************************************************)
(* Builders: the inputs and the specification                              *)
(***************************************************************************)
MaxInputs == 1

MaxOutputs == 1

MaxSigns == 2

MaxTicks == 1

InputChoices == [token : {Addr(1)}, amount : {1}]

OutputChoices ==
    [token : {Addr(1)}, amount : {1}, recipient : {Addr(3)}, chainId : {1}]

DeadlineChoices == {20}

NonceChoices == {7, 8}

RandomNonces == {100, 101}

\* SignetSystemConstants: MAINNET (host chain 1, slotTime 12n), and the
\* constants of a chain of the caller's own with a slot of 2 seconds
SystemConstants ==
    { [hostChainId |-> 1, hostOrders |-> Addr(9), slotTime |-> 12],
      [hostChainId |-> 2, hostOrders |-> Addr(8), slotTime |-> 2] }

\* the slotTime of the constants a chain belongs to
slotTimeOf(chainId) ==
    (CHOOSE c \in SystemConstants : c.hostChainId = chainId).slotTime

\* withChain({ chainId: constants.hostChainId, orderContract: constants.hostOrders })
ChainConfigs ==
    { [chainId |-> c.hostChainId, orderContract |-> c.hostOrders] :
        c \in SystemConstants }

\* what the wallet can throw
SignerErrors == {"User rejected the request", "Signer disconnected"}

\* the account argument of sign: absent, an Account object, an address string
AccountArgs ==
    { NoAccount, [kind |-> "account", address |-> Addr(5)],
      [kind |-> "address", address |-> Addr(5)] }

\* the wallet client: without and with a default account
Clients ==
    { [account |-> NoAccount],
      [account |-> [kind |-> "account", address |-> Addr(7)]] }

BldInit ==
    /\ bKind \in {"order", "fill"}
    /\ bInputs = <<>>
    /\ bOutputs = <<>>
    /\ bDeadline = IF bKind = "order" THEN Defined(0) ELSE Undefined
    /\ bNonce = Undefined
    /\ bChain = NoChain
    /\ bCall = NoCall
    /\ bArtifacts = {}
    /\ bSigns = 0
    /\ bLast = NoOutcome
    /\ clockMs = 0 /\ vArtifact = <<>> /\ vKind = "none" /\ vResult = <<>>
    /\ SigIdle /\ FeasIdle /\ SeedIdle /\ OthersIdle

BldOthers ==
    UNCHANGED <<sigVars, feasVars, vArtifact, vKind, vResult, seedVars, otherVars>>

\* time passes
BldTick ==
    /\ clockMs < MaxTicks * MsPerSecond
    /\ clockMs' = clockMs + MsPerSecond
    /\ UNCHANGED bldVars
    /\ BldOthers

\* UnsignedOrder.withInput(token, amount)
WithInput ==
    /\ bKind = "order" /\ Len(bInputs) < MaxInputs
    /\ \E i \in InputChoices :
         bInputs' = Append(bInputs, [token |-> i.token, amount |-> i.amount])
    /\ UNCHANGED <<bKind, bOutputs, bDeadline, bNonce, bChain, bCall, bArtifacts,
                   bSigns, bLast, clockMs>>
    /\ BldOthers

\* UnsignedOrder.withInputs(inputs)
WithInputs ==
    /\ bKind = "order"
    /\ \E is \in SeqsUpTo(InputChoices, MaxInputs) :
         /\ Len(bInputs) + Len(is) <= MaxInputs
         /\ bInputs' = bInputs \o toTokenPermissionsArray(is)
    /\ UNCHANGED <<bKind, bOutputs, bDeadline, bNonce, bChain, bCall, bArtifacts,
                   bSigns, bLast, clockMs>>
    /\ BldOthers

\* UnsignedOrder.withOutput(token, amount, recipient, chainId)
WithOutput ==
    /\ bKind = "order" /\ Len(bOutputs) < MaxOutputs
    /\ \E o \in OutputChoices : bOutputs' = Append(bOutputs, o)
    /\ UNCHANGED <<bKind, bInputs, bDeadline, bNonce, bChain, bCall, bArtifacts,
                   bSigns, bLast, clockMs>>
    /\ BldOthers

\* UnsignedOrder.withOutputs(outputs) and UnsignedFill.withOutputs(outputs)
WithOutputs ==
    /\ \E os \in SeqsUpTo(OutputChoices, MaxOutputs) :
         /\ Len(bOutputs) + Len(os) <= MaxOutputs
         /\ bOutputs' = bOutputs \o os
    /\ UNCHANGED <<bKind, bInputs, bDeadline, bNonce, bChain, bCall, bArtifacts,
                   bSigns, bLast, clockMs>>
    /\ BldOthers

\* withDeadline(deadline)
WithDeadline ==
    /\ \E d \in DeadlineChoices : bDeadline' = Defined(d)
    /\ UNCHANGED <<bKind, bInputs, bOutputs, bNonce, bChain, bCall, bArtifacts,
                   bSigns, bLast, clockMs>>
    /\ BldOthers

\* withNonce(nonce)
WithNonce ==
    /\ \E n \in NonceChoices : bNonce' = Defined(n)
    /\ UNCHANGED <<bKind, bInputs, bOutputs, bDeadline, bChain, bCall, bArtifacts,
                   bSigns, bLast, clockMs>>
    /\ BldOthers

\* withChain(config)
WithChain ==
    /\ \E c \in ChainConfigs :
         bChain' = [def |-> TRUE, chainId |-> c.chainId,
                    orderContract |-> c.orderContract]
    /\ UNCHANGED <<bKind, bInputs, bOutputs, bDeadline, bNonce, bCall, bArtifacts,
                   bSigns, bLast, clockMs>>
    /\ BldOthers

Outcome(result, drewNonce, signerCalls) ==
    [result |-> result, drewNonce |-> drewNonce, signerCalls |-> signerCalls,
     signerError |-> "none"]

CanSign == ~bCall.active /\ bSigns < MaxSigns

\* sign() on a builder without chain configuration: throws at once
SignChainMissing ==
    /\ CanSign /\ chainMissing(bChain)
    /\ bSigns' = bSigns + 1
    /\ bLast' = Outcome("Chain not configured", FALSE, 0)
    /\ UNCHANGED <<bKind, bInputs, bOutputs, bDeadline, bNonce, bChain, bCall,
                   bArtifacts, clockMs>>
    /\ BldOthers

\* sign() with no account argument on a client without default account:
\* throws after the nonce has been settled
SignNoAccount ==
    /\ CanSign /\ ~chainMissing(bChain)
    /\ \E client \in Clients, account \in AccountArgs, random \in RandomNonces :
         /\ ~resolveAccount(client, account).ok
         /\ bLast' = Outcome("No account", signNonce(bNonce, random).drew, 0)
    /\ bSigns' = bSigns + 1
    /\ UNCHANGED <<bKind, bInputs, bOutputs, bDeadline, bNonce, bChain, bCall,
                   bArtifacts, clockMs>>
    /\ BldOthers

\* UnsignedOrder.sign() up to its await: the wallet is asked to sign
OrderSignStart ==
    /\ bKind = "order" /\ CanSign /\ ~chainMissing(bChain)
    /\ \E client \in Clients, account \in AccountArgs, random \in RandomNonces :
         LET nonce == signNonce(bNonce, random)
             acct == resolveAccount(client, account)
             permitted == toTokenPermissionsArray(bInputs)
         IN  /\ acct.ok
             /\ bCall' = [active |-> TRUE, client |-> client,
                          account |-> account, nonce |-> nonce.val,
                          deadline |-> bDeadline.val,
                          signer |-> acct.signerAccount,
                          owner |-> acct.ownerAddress,
                          permitted |-> permitted,
                          signed |-> TypedData(bChain.chainId, permitted,
                                               bChain.orderContract, nonce.val,
                                               bDeadline.val, bOutputs)]
             /\ bLast' = Outcome("pending", nonce.drew, 1)
    /\ bSigns' = bSigns + 1
    /\ UNCHANGED <<bKind, bInputs, bOutputs, bDeadline, bNonce, bChain,
                   bArtifacts, clockMs>>
    /\ BldOthers

\* UnsignedFill.sign() up to its await
FillSignStart ==
    /\ bKind = "fill" /\ CanSign /\ ~chainMissing(bChain)
    /\ \E client \in Clients, account \in AccountArgs, random \in RandomNonces :
         LET nonce == signNonce(bNonce, random)
             deadline == fillDeadline(bDeadline, clockMs)
             acct == resolveAccount(client, account)
             permitted == toTokenPermissionsArray(bOutputs)
         IN  /\ acct.ok
             /\ bCall' = [active |-> TRUE, client |-> client,
                          account |-> account, nonce |-> nonce.val,
                          deadline |-> deadline,
                          signer |-> acct.signerAccount,
                          owner |-> acct.ownerAddress,
                          permitted |-> permitted,
                          signed |-> TypedData(bChain.chainId, permitted,
                                               bChain.orderContract, nonce.val,
                                               deadline, bOutputs)]
             /\ bLast' = Outcome("pending", nonce.drew, 1)
    /\ bSigns' = bSigns + 1
    /\ UNCHANGED <<bKind, bInputs, bOutputs, bDeadline, bNonce, bChain,
                   bArtifacts, clockMs>>
    /\ BldOthers

\* the wallet refuses or fails: sign() rejects with the wallet's error
SignerFails ==
    /\ bCall.active
    /\ bCall' = NoCall
    /\ \E error \in SignerErrors :
         bLast' = [bLast EXCEPT !.result = signFailure(error),
                                !.signerError = error]
    /\ UNCHANGED <<bKind, bInputs, bOutputs, bDeadline, bNonce, bChain,
                   bArtifacts, bSigns, clockMs>>
    /\ BldOthers

\* the SignedOrder that UnsignedOrder.sign() builds after its await: the
\* deadline is read from the builder again, the outputs are the builder's array
OrderArtifact(call, signature) ==
    [permit |-> [permit |-> [permitted |-> call.permitted, nonce |-> call.nonce,
                             deadline |-> bDeadline.val],
                 owner |-> call.owner, signature |-> signature],
     outputs |-> OutputsRef]

\* the SignedFill that UnsignedFill.sign() builds after its await
FillArtifact(call, signature) ==
    [permit |-> [permit |-> [permitted |-> call.permitted, nonce |-> call.nonce,
                             deadline |-> call.deadline],
                 owner |-> call.owner, signature |-> signature],
     outputs |-> OutputsRef]

\* the wallet returns a signature and sign() returns the artifact
SignReturns ==
    /\ bCall.active
    /\ LET signature == SignatureOf(bCall.signer, bCall.signed)
           artifact == IF bKind = "order" THEN OrderArtifact(bCall, signature)
                       ELSE FillArtifact(bCall, signature)
       IN  bArtifacts' = bArtifacts \cup {artifact}
    /\ bCall' = NoCall
    /\ bLast' = [bLast EXCEPT !.result = "returned"]
    /\ UNCHANGED <<bKind, bInputs, bOutputs, bDeadline, bNonce, bChain, bSigns,
                   clockMs>>
    /\ BldOthers

BldNext ==
    \/ BldTick
    \/ WithInput
    \/ WithInputs
    \/ WithOutput
    \/ WithOutputs
    \/ WithDeadline
    \/ WithNonce
    \/ WithChain
    \/ SignChainMissing
    \/ SignNoAccount
    \/ OrderSignStart
    \/ FillSignStart
    \/ SignerFails
    \/ SignReturns

BldSpec == BldInit /\ [][BldNext]_vars

(***************************************************************************)
(* Builders: the properties                                                *)
(***************************************************************************)
\* what an artifact will show to a reader after the step
DerefNext(artifact) == [artifact EXCEPT !.outputs = bOutputs']

\* C1: no operation on the builder changes what an artifact that sign() has
\* returned shows: permitted, nonce, deadline, owner, signature and outputs
\* stay as they were.
C1_ReturnedArtifactNeverChanges ==
    [][\A a \in bArtifacts : a \in bArtifacts' /\ DerefNext(a) = Deref(a)]_vars

\* steps of a sign call: the call is made; it suspends at its await; it
\* resumes and returns; a is what it returns
SignCalled == bSigns' = bSigns + 1

SignStarted == ~bCall.active /\ bCall'.active

SignReturned == bCall.active /\ ~bCall'.active /\ bLast'.result = "returned"

Returned(a) == bArtifacts' = bArtifacts \cup {a}

\* C12: sign() on a builder on which withChain was never called throws
\* "Chain not configured" at once: the wallet is not asked to sign, the call
\* does not suspend and no artifact is produced.
C12_ChainNotConfigured ==
    [][(SignCalled /\ ~bChain.def)
          => /\ bLast'.result = "Chain not configured"
             /\ bLast'.signerCalls = 0
             /\ ~bCall'.active
             /\ bArtifacts' = bArtifacts]_vars

C12_Witness ==
    /\ bLast.result = "Chain not configured"
    /\ ~bChain.def /\ bOutputs # <<>> /\ bNonce.def /\ bDeadline = Defined(20)
    /\ bArtifacts = {}

\* withDeadline was never called on the order builder: every deadline it can
\* be given differs from the initial 0n
OrderDeadlineNeverSet == bKind = "order" /\ bDeadline = Defined(0)

\* C13: an order builder on which withDeadline was never called produces no
\* signed order.
C13_OrderNeedsExplicitDeadline ==
    [][OrderDeadlineNeverSet => bArtifacts' \subseteq bArtifacts]_vars

\* C14: a fill signed with no deadline set gets the deadline now + slotTime,
\* now being the second of the sign call and slotTime the constant of the
\* configured chain; a deadline that was set is used as it is; the fill
\* returned carries that deadline.
C14_FillDefaultDeadline ==
    [][/\ (bKind = "fill" /\ SignStarted)
            => IF bDeadline.def
               THEN bCall'.deadline = bDeadline.val
               ELSE LET now == bCall'.deadline - slotTimeOf(bChain.chainId)
                    IN  /\ now * MsPerSecond <= clockMs
                        /\ clockMs < (now + 1) * MsPerSecond
       /\ (bKind = "fill" /\ SignReturned)
            => \E a \in bArtifacts' :
                  Returned(a) /\ a.permit.permit.deadline = bCall.deadline]_vars

\* C15: sign() uses the nonce last given with withNonce and then does not call
\* randomNonce(); with no nonce given it calls randomNonce(), in every such
\* sign call, and uses what that call drew; the artifact carries that nonce.
C15_NonceSetOrDrawn ==
    [][/\ SignStarted
            => IF bNonce.def
               THEN bCall'.nonce = bNonce.val /\ ~bLast'.drewNonce
               ELSE bCall'.nonce \in RandomNonces /\ bLast'.drewNonce
       /\ SignReturned
            => \E a \in bArtifacts' :
                  Returned(a) /\ a.permit.permit.nonce = bCall.nonce]_vars

C15_Witness ==
    /\ bSigns = 2
    /\ \E a, b \in bArtifacts :
         /\ a.permit.permit.nonce \in NonceChoices
         /\ b.permit.permit.nonce \in RandomNonces

\* C16: the wallet signs with the account argument when there is one and with
\* the client's account otherwise, and the owner of the artifact is that
\* account's address; with neither, sign() throws "No account", the wallet
\* is not asked to sign and no artifact is produced.
C16_AccountResolution ==
    [][/\ SignStarted
            => LET used == IF bCall'.account # NoAccount THEN bCall'.account
                           ELSE bCall'.client.account
               IN  /\ used # NoAccount
                   /\ bCall'.signer = used
                   /\ bCall'.owner = used.address
                   /\ bLast'.signerCalls = 1
       /\ SignReturned
            => \E a \in bArtifacts' :
                  /\ Returned(a)
                  /\ a.permit.owner = bCall.owner
                  /\ a.permit.signature.signer = bCall.signer.address
       /\ (SignCalled /\ bLast'.result = "No account")
            => /\ bLast'.signerCalls = 0
               /\ ~bCall'.active
               /\ bArtifacts' = bArtifacts]_vars

C16_Witness ==
    /\ bLast.result = "returned" /\ bSigns = 2
    /\ \E a, b \in bArtifacts :
         a.permit.owner = Addr(5) /\ b.permit.owner = Addr(7)

\* C17: when the wallet throws, sign() throws the same error, the wallet was
\* asked once in that call and is not asked again, and no artifact is produced.
C17_SignerFailurePropagates ==
    [][(bCall.active /\ bLast'.signerError # "none")
          => /\ bLast'.result = bLast'.signerError
             /\ bLast'.signerCalls = 1
             /\ ~bCall'.active
             /\ bArtifacts' = bArtifacts]_vars

C17_Witness ==
    /\ bLast.signerError \in SignerErrors
    /\ bLast.result = bLast.signerError
    /\ bSigns = 1 /\ bArtifacts = {} /\ ~bCall.active

\* C18: once sign() has returned an artifact the builder takes no further
\* transition: no with* call changes it and no sign call is made on it.
C18_SignedIsTerminal ==
    [][bArtifacts # {}
          => UNCHANGED <<bInputs, bOutputs, bDeadline, bNonce, bChain, bSigns,
                         bCall>>]_vars

\* C27: the with* calls on a fill builder are made, then sign() is called and
\* returns: at that moment the SignedFill has as many permitted entries as
\* outputs and permitted[i] has the token and the amount of outputs[i], so
\* that validateFill does not reject it for a length, token or amount
\* mismatch.
FillSignReturned == SignReturned /\ bKind = "fill"

\* nothing was pushed onto the builder's outputs while sign() awaited the
\* wallet: they are the outputs that were handed to the wallet
OutputsAsSigned == toOutputObjectArray(bOutputs) = bCall.signed.outputs

CouplingErrors == {"Length mismatch", "Token mismatch", "Amount mismatch"}

Coupled(fill) ==
    /\ Len(fill.permit.permit.permitted) = Len(fill.outputs)
    /\ \A i \in 1..Len(fill.outputs) :
         /\ fill.permit.permit.permitted[i].token = fill.outputs[i].token
         /\ fill.permit.permit.permitted[i].amount = fill.outputs[i].amount
    /\ validateFill(fill, clockMs').msg \notin CouplingErrors

FillCoupledWhateverIsCalledMeanwhile ==
    [][FillSignReturned
          => \E a \in bArtifacts' : Returned(a) /\ Coupled(DerefNext(a))]_vars

(***************************************************************************)
(* src/signing/nonce.ts: nonceFromSeed.  A string is the sequence of its   *)
(* characters.  An integer is a record [neg, digits], the digits decimal,  *)
(* most significant first, <<0>> for zero.  A seed is a record [type,      *)
(* chars, int]: a string has chars, a number or a bigint has int, the      *)
(* integer that is its value.                                              *)
(***************************************************************************)
DecChars == <<"0", "1", "2", "3", "4", "5", "6", "7", "8", "9">>

\* the decimal digits of an integer, as characters, with its sign
DecimalString(int) ==
    (IF int.neg THEN <<"-">> ELSE <<>>)
        \o [i \in 1..Len(int.digits) |-> DecChars[int.digits[i] + 1]]

\* the decimal digits of a natural number below 100
SmallDecimal(n) ==
    IF n < 10 THEN <<DecChars[n + 1]>>
    ELSE <<DecChars[(n \div 10) + 1], DecChars[(n % 10) + 1]>>

RECURSIVE StripTrailingZeros(_)
StripTrailingZeros(d) ==
    IF Len(d) > 1 /\ d[Len(d)] = 0
    THEN StripTrailingZeros(SubSeq(d, 1, Len(d) - 1)) ELSE d

\* BigInt.prototype.toString(): always the decimal digits
bigintToString(int) == DecimalString(int)

\* Number.prototype.toString() of an integer-valued number whose shortest
\* digits are its own: decimal digits below 10^21, and from 10^21 on the
\* exponential form d[.ddd]e+XX
numberToString(int) ==
    IF Len(int.digits) <= 21 THEN DecimalString(int)
    ELSE LET s == StripTrailingZeros(int.digits)
             mantissa == <<DecChars[s[1] + 1]>>
                           \o (IF Len(s) > 1
                               THEN <<".">> \o [i \in 1..(Len(s) - 1) |->
                                                   DecChars[s[i + 1] + 1]]
                               ELSE <<>>)
         IN  (IF int.neg THEN <<"-">> ELSE <<>>)
               \o mantissa \o <<"e", "+">> \o SmallDecimal(Len(int.digits) - 1)

\* typeof seed === "string" ? seed : seed.toString()
seedString(seed) ==
    CASE seed.type = "string" -> seed.chars
      [] seed.type = "number" -> numberToString(seed.int)
      [] seed.type = "bigint" -> bigintToString(seed.int)

\* the UTF-8 byte of a character of the seeds used here
CharCode(c) ==
    CASE c = "0" -> 48 [] c = "1" -> 49 [] c = "2" -> 50 [] c = "3" -> 51
      [] c = "4" -> 52 [] c = "5" -> 53 [] c = "6" -> 54 [] c = "7" -> 55
      [] c = "8" -> 56 [] c = "9" -> 57 [] c = "+" -> 43 [] c = "-" -> 45
      [] c = "." -> 46 [] c = "a" -> 97 [] c = "e" -> 101 [] c = "x" -> 120

\* viem's toBytes of a string: the bytes a "0x" hex text spells, and the
\* UTF-8 bytes of any other text
toBytes(chars) ==
    IF /\ Len(chars) >= 2 /\ chars[1] = "0" /\ chars[2] = "x"
       /\ \A i \in 3..Len(chars) : chars[i] \in HexChars
    THEN HexToBytes(SubSeq(chars, 3, Len(chars))).bytes
    ELSE [i \in 1..Len(chars) |-> CharCode(chars[i])]

\* BigInt(keccak256(toBytes(seedStr))): the nonce is known by the hash
nonceFromSeed(seed) == keccak256(toBytes(seedString(seed)))

(***************************************************************************)
(* nonceFromSeed: the inputs and the specification                         *)
(***************************************************************************)
Digits(d, zeros) == d \o [i \in 1..zeros |-> 0]

\* 0, 7, 42, -5, 10^20, 10^21, 12 * 10^20, -10^21: each is a bigint and is
\* the exact value of a number
SeedIntegers ==
    { [neg |-> FALSE, digits |-> <<0>>],
      [neg |-> FALSE, digits |-> <<7>>],
      [neg |-> FALSE, digits |-> <<4, 2>>],
      [neg |-> TRUE, digits |-> <<5>>],
      [neg |-> FALSE, digits |-> Digits(<<1>>, 20)],
      [neg |-> FALSE, digits |-> Digits(<<1>>, 21)],
      [neg |-> FALSE, digits |-> Digits(<<1, 2>>, 20)],
      [neg |-> TRUE, digits |-> Digits(<<1>>, 21)] }

NoInt == [neg |-> FALSE, digits |-> <<>>]

StringSeed(chars) == [type |-> "string", chars |-> chars, int |-> NoInt]

\* the decimal text of every integer, and "", "1e+21", "0x", "0x07", "a"
SeedStrings ==
    { DecimalString(n) : n \in SeedIntegers }
        \cup { <<>>, <<"1", "e", "+", "2", "1">>, <<"0", "x">>,
               <<"0", "x", "0", "7">>, <<"a">> }

Seeds ==
    { [type |-> ty, chars |-> <<>>, int |-> n] :
        ty \in {"number", "bigint"}, n \in SeedIntegers }
        \cup { StringSeed(s) : s \in SeedStrings }

NoNonce == [done |-> FALSE, val |-> <<>>]

SeedInit ==
    /\ seedA \in Seeds /\ seedB \in Seeds
    /\ seedNonceA = NoNonce /\ seedNonceB = NoNonce
    /\ SigIdle /\ ValIdle /\ FeasIdle /\ BldIdle /\ OthersIdle

\* nonceFromSeed(seedA)
DeriveA ==
    /\ ~seedNonceA.done
    /\ seedNonceA' = [done |-> TRUE, val |-> nonceFromSeed(seedA)]
    /\ UNCHANGED <<seedA, seedB, seedNonceB, sigVars, valVars, feasVars, bldVars, otherVars>>

\* nonceFromSeed(seedB)
DeriveB ==
    /\ ~seedNonceB.done
    /\ seedNonceB' = [done |-> TRUE, val |-> nonceFromSeed(seedB)]
    /\ UNCHANGED <<seedA, seedB, seedNonceA, sigVars, valVars, feasVars, bldVars, otherVars>>

SeedNext == DeriveA \/ DeriveB

SeedSpec == SeedInit /\ [][SeedNext]_vars

(***************************************************************************)
(* nonceFromSeed: the properties                                           *)
(***************************************************************************)
\* the seed is the integer n given as a number, as a bigint, or as the
\* string of n's decimal digits
SeedOfInteger(seed, n) ==
    IF seed.type = "string" THEN seed.chars = DecimalString(n) ELSE seed.int = n

BothDerived == seedNonceA.done /\ seedNonceB.done

\* C20: two seeds that are the same integer, each as a number, a bigint or
\* the decimal string, yield the same nonce; equal seeds yield equal nonces;
\* the empty string yields a nonce.
C20_SeedsOfOneIntegerCollide ==
    BothDerived =>
        /\ \A n \in SeedIntegers :
             (SeedOfInteger(seedA, n) /\ SeedOfInteger(seedB, n))
                 => seedNonceA.val = seedNonceB.val
        /\ seedA = seedB => seedNonceA.val = seedNonceB.val
        /\ seedA = StringSeed(<<>>) => seedNonceA.val = keccak256(<<>>)

(***************************************************************************)
(* src/types/serialization.ts: serializeOrder and deserializeOrder.  An     *)
(* amount, a nonce and a deadline are bigints, records [neg, mag] as above; *)
(* a chainId is a JavaScript number.  A value on the wire is a JSON string  *)
(* or a JSON number, told apart by its type field.                          *)
(***************************************************************************)
JsonString(chars) == [type |-> "string", chars |-> chars]

\* a number, known by the bigint that is its value
JsonNumber(value) == [type |-> "number", value |-> value]

\* toHex that trims every leading zero, that of zero too: "0x" for 0n
toHexTrimmed(value) ==
    JsonString(<<"0", "x">> \o (IF value.mag = <<>> THEN <<>> ELSE BigToString16(value)))

\* viem's toHex on a bigint that is not negative: `0x${value.toString(16)}`
toHex(value) == JsonString(<<"0", "x">> \o BigToString16(value))

\* viem's fromHex(hex, "bigint"): BigInt(hex), on a text that begins with 0x
fromHex(hex) == BigIntOfHex(Slice(hex.chars, 2, Len(hex.chars)))

serializeOrder(order) ==
    [permit |->
        [permit |->
            [permitted |->
                [i \in 1..Len(order.permit.permit.permitted) |->
                    [token |-> order.permit.permit.permitted[i].token,
                     amount |-> toHex(order.permit.permit.permitted[i].amount)]],
             nonce |-> toHex(order.permit.permit.nonce),
             deadline |-> toHex(order.permit.permit.deadline)],
         owner |-> order.permit.owner,
         signature |-> order.permit.signature],
     outputs |->
        [i \in 1..Len(order.outputs) |->
            [token |-> order.outputs[i].token,
             amount |-> toHex(order.outputs[i].amount),
             recipient |-> order.outputs[i].recipient,
             chainId |-> order.outputs[i].chainId]]]

\* [ok |-> FALSE] when a fromHex throws
deserializeOrder(raw) ==
    LET permitted == raw.permit.permit.permitted
        parsed == { fromHex(permitted[i].amount) : i \in 1..Len(permitted) }
                    \cup { fromHex(raw.outputs[i].amount) : i \in 1..Len(raw.outputs) }
                    \cup { fromHex(raw.permit.permit.nonce),
                           fromHex(raw.permit.permit.deadline) }
    IN  IF \E x \in parsed : ~x.ok THEN [ok |-> FALSE, val |-> <<>>]
        ELSE [ok |-> TRUE,
              val |->
                [permit |->
                    [permit |->
                        [permitted |->
                            [i \in 1..Len(permitted) |->
                                [token |-> permitted[i].token,
                                 amount |-> fromHex(permitted[i].amount).val]],
                         nonce |-> fromHex(raw.permit.permit.nonce).val,
                         deadline |-> fromHex(raw.permit.permit.deadline).val],
                     owner |-> raw.permit.owner,
                     signature |-> raw.permit.signature],
                 outputs |->
                    [i \in 1..Len(raw.outputs) |->
                        [token |-> raw.outputs[i].token,
                         amount |-> fromHex(raw.outputs[i].amount).val,
                         recipient |-> raw.outputs[i].recipient,
                         chainId |-> raw.outputs[i].chainId]]]]

(***************************************************************************)
(* Order serialization: the inputs and the specification                   *)
(***************************************************************************)
MaxSerLen == 2

BigZero == [neg |-> FALSE, mag |-> <<>>]

BigOne == [neg |-> FALSE, mag |-> <<1>>]

\* 2^256 - 1 and 2^32 - 1
MaxUint256 == [neg |-> FALSE, mag |-> Repeat(64, 15)]

MaxUint32 == [neg |-> FALSE, mag |-> Repeat(8, 15)]

SerAmounts == {BigZero, BigOne, MaxUint256}

SerChainIds == {JsonNumber(BigOne), JsonNumber(MaxUint32)}

SerOrders ==
    { [permit |-> [permit |-> [permitted |-> p, nonce |-> n, deadline |-> d],
                   owner |-> Addr(2), signature |-> UnsignedSignature],
       outputs |-> o] :
        p \in SeqsUpTo([token : {Addr(1)}, amount : SerAmounts], MaxSerLen),
        o \in SeqsUpTo([token : {Addr(1)}, amount : SerAmounts,
                        recipient : {Addr(3)}, chainId : SerChainIds], MaxSerLen),
        n \in {BigZero, MaxUint256},
        d \in {BigZero, MaxUint256} }

NotDone == [done |-> FALSE, ok |-> FALSE, val |-> <<>>]

Done(ok, val) == [done |-> TRUE, ok |-> ok, val |-> val]

SerInit ==
    /\ serOrder \in SerOrders
    /\ serRaw = NotDone /\ serBack = NotDone
    /\ CoreIdle /\ BunIdle /\ ApIdle /\ FcIdle

\* serializeOrder(serOrder)
SerializeOrder ==
    /\ ~serRaw.done
    /\ serRaw' = Done(TRUE, serializeOrder(serOrder))
    /\ UNCHANGED <<serOrder, serBack, coreVars, bunVars, apVars, fcVars>>

\* deserializeOrder of what serializeOrder returned
DeserializeOrder ==
    /\ serRaw.done /\ ~serBack.done
    /\ LET back == deserializeOrder(serRaw.val)
       IN  serBack' = Done(back.ok, back.val)
    /\ UNCHANGED <<serOrder, serRaw, coreVars, bunVars, apVars, fcVars>>

SerNext == SerializeOrder \/ DeserializeOrder

SerSpec == SerInit /\ [][SerNext]_vars

(***************************************************************************)
(* Order serialization: the properties                                     *)
(***************************************************************************)
SerPermitted == serOrder.permit.permit.permitted

\* C21: deserializeOrder(serializeOrder(o)) returns, and it returns o: for
\* amounts, nonce and deadline of 0 and of 2^256 - 1, for a chainId of
\* 2^32 - 1, for empty permitted and empty outputs.
C21_OrderRoundTrip ==
    serBack.done => (serBack.ok /\ serBack.val = serOrder)

C21_Witness ==
    /\ serBack.done /\ serBack.ok
    /\ SerPermitted = <<>>
    /\ Len(serOrder.outputs) = 2
    /\ serOrder.outputs[1].amount = BigZero
    /\ serOrder.outputs[2].amount = MaxUint256
    /\ serOrder.outputs[2].chainId = JsonNumber(MaxUint32)
    /\ serOrder.permit.permit.nonce = BigZero
    /\ serOrder.permit.permit.deadline = MaxUint256
    /\ serBack.val.outputs = serOrder.outputs

\* a JSON string "0x" and hex digits, without leading zero, "0x0" for zero
IsQuantity(v) ==
    /\ v.type = "string"
    /\ Len(v.chars) >= 3
    /\ v.chars[1] = "0" /\ v.chars[2] = "x"
    /\ \A i \in 3..Len(v.chars) : v.chars[i] \in HexChars
    /\ (v.chars[3] = "0" => Len(v.chars) = 3)

\* C22: serializeOrder emits every uint256 and uint32 field (each permitted
\* amount, the nonce, the deadline, each output amount and each output
\* chainId) as a string "0x" and hex digits without leading zeros, "0x0" for
\* zero.
C22_NumericFieldsAreHex ==
    serRaw.done =>
        LET raw == serRaw.val
        IN  /\ \A i \in 1..Len(raw.permit.permit.permitted) :
                 IsQuantity(raw.permit.permit.permitted[i].amount)
            /\ IsQuantity(raw.permit.permit.nonce)
            /\ IsQuantity(raw.permit.permit.deadline)
            /\ \A i \in 1..Len(raw.outputs) :
                 /\ IsQuantity(raw.outputs[i].amount)
                 /\ IsQuantity(raw.outputs[i].chainId)

(***************************************************************************)
(* src/signing/bundle serialization: serializeEthBundle, serializeCallBundle *)
(* and their inverses.  An optional field is a record [def, val]: def tells  *)
(* whether the property is there, and val of a field that is not there is    *)
(* the empty array, JsonString(<<>>), JsonNumber(0) or 0n, by the field's    *)
(* type.  A transaction, a hash, a uuid and a block tag are single symbols.  *)
(***************************************************************************)
Opt(def, val) == [def |-> def, val |-> val]

NoArray == Opt(FALSE, <<>>)

NoString == Opt(FALSE, JsonString(<<>>))

NoNumber == Opt(FALSE, JsonNumber(BigZero))

NoBigint == Opt(FALSE, BigZero)

\* if (bundle.f && bundle.f.length > 0) result.f = [...bundle.f]
copyArrayIfNotEmpty(field) ==
    IF field.def /\ Len(field.val) > 0 THEN Opt(TRUE, field.val) ELSE NoArray

\* if (bundle.f !== undefined) result.f = bundle.f
copyIfDefined(field, absent) == IF field.def THEN Opt(TRUE, field.val) ELSE absent

\* if (bundle.f !== undefined) result.f = toHex(bundle.f), f a bigint
hexIfDefined(field) == IF field.def THEN Opt(TRUE, toHex(field.val)) ELSE NoString

\* the same for a number
numberHexIfDefined(field) ==
    IF field.def THEN Opt(TRUE, toHex(field.val.value)) ELSE NoString

\* if (raw.f !== undefined) result.f = fromHex(raw.f, "bigint")
bigintIfDefined(field) ==
    IF field.def THEN Opt(TRUE, fromHex(field.val).val) ELSE NoBigint

\* if (raw.f !== undefined) result.f = fromHex(raw.f, "number")
numberIfDefined(field) ==
    IF field.def THEN Opt(TRUE, JsonNumber(fromHex(field.val).val)) ELSE NoNumber

\* whether fromHex returns on the field, when the field is there
parses(field) == field.def => fromHex(field.val).ok

serializeEthBundle(bundle) ==
    [txs |-> bundle.txs,
     blockNumber |-> toHex(bundle.blockNumber),
     minTimestamp |-> copyIfDefined(bundle.minTimestamp, NoNumber),
     maxTimestamp |-> copyIfDefined(bundle.maxTimestamp, NoNumber),
     revertingTxHashes |-> copyArrayIfNotEmpty(bundle.revertingTxHashes),
     replacementUuid |-> copyIfDefined(bundle.replacementUuid, NoString),
     droppingTxHashes |-> copyArrayIfNotEmpty(bundle.droppingTxHashes),
     refundPercent |-> copyIfDefined(bundle.refundPercent, NoNumber),
     refundRecipient |-> copyIfDefined(bundle.refundRecipient, NoString),
     refundTxHashes |-> copyArrayIfNotEmpty(bundle.refundTxHashes),
     hostTxs |-> copyArrayIfNotEmpty(bundle.hostTxs)]

deserializeEthBundle(raw) ==
    LET blockNumber == fromHex(raw.blockNumber)
    IN  IF ~blockNumber.ok THEN [ok |-> FALSE, val |-> <<>>]
        ELSE [ok |-> TRUE,
              val |->
                [txs |-> raw.txs,
                 blockNumber |-> blockNumber.val,
                 minTimestamp |-> copyIfDefined(raw.minTimestamp, NoNumber),
                 maxTimestamp |-> copyIfDefined(raw.maxTimestamp, NoNumber),
                 revertingTxHashes |-> copyArrayIfNotEmpty(raw.revertingTxHashes),
                 replacementUuid |-> copyIfDefined(raw.replacementUuid, NoString),
                 droppingTxHashes |-> copyArrayIfNotEmpty(raw.droppingTxHashes),
                 refundPercent |-> copyIfDefined(raw.refundPercent, NoNumber),
                 refundRecipient |-> copyIfDefined(raw.refundRecipient, NoString),
                 refundTxHashes |-> copyArrayIfNotEmpty(raw.refundTxHashes),
                 hostTxs |-> copyArrayIfNotEmpty(raw.hostTxs)]]

BlockTags == {"latest", "pending", "earliest"}

\* a BlockNumberOrTag: a bigint, or one of the tags
BlockNumber(value) == [type |-> "bigint", value |-> value, tag |-> ""]

BlockTag(tag) == [type |-> "tag", value |-> BigZero, tag |-> tag]

serializeStateBlockNumber(value) ==
    IF value.type = "bigint" THEN toHex(value.value) ELSE JsonString(<<value.tag>>)

deserializeStateBlockNumber(value) ==
    IF value.chars \in { <<tag>> : tag \in BlockTags }
    THEN [ok |-> TRUE, val |-> BlockTag(value.chars[1])]
    ELSE [ok |-> fromHex(value).ok, val |-> BlockNumber(fromHex(value).val)]

serializeCallBundle(bundle) ==
    [txs |-> bundle.txs,
     blockNumber |-> toHex(bundle.blockNumber),
     stateBlockNumber |-> serializeStateBlockNumber(bundle.stateBlockNumber),
     timestamp |-> hexIfDefined(bundle.timestamp),
     gasLimit |-> hexIfDefined(bundle.gasLimit),
     difficulty |-> hexIfDefined(bundle.difficulty),
     baseFee |-> hexIfDefined(bundle.baseFee),
     transactionIndex |-> numberHexIfDefined(bundle.transactionIndex),
     coinbase |-> copyIfDefined(bundle.coinbase, NoString),
     timeout |-> numberHexIfDefined(bundle.timeout)]

deserializeCallBundle(raw) ==
    LET blockNumber == fromHex(raw.blockNumber)
        stateBlockNumber == deserializeStateBlockNumber(raw.stateBlockNumber)
    IN  IF ~(/\ blockNumber.ok /\ stateBlockNumber.ok
             /\ parses(raw.timestamp) /\ parses(raw.gasLimit)
             /\ parses(raw.difficulty) /\ parses(raw.baseFee)
             /\ parses(raw.transactionIndex) /\ parses(raw.timeout))
        THEN [ok |-> FALSE, val |-> <<>>]
        ELSE [ok |-> TRUE,
              val |->
                [txs |-> raw.txs,
                 blockNumber |-> blockNumber.val,
                 stateBlockNumber |-> stateBlockNumber.val,
                 timestamp |-> bigintIfDefined(raw.timestamp),
                 gasLimit |-> bigintIfDefined(raw.gasLimit),
                 difficulty |-> bigintIfDefined(raw.difficulty),
                 baseFee |-> bigintIfDefined(raw.baseFee),
                 transactionIndex |-> numberIfDefined(raw.transactionIndex),
                 coinbase |-> copyIfDefined(raw.coinbase, NoString),
                 timeout |-> numberIfDefined(raw.timeout)]]

(***************************************************************************)
(* Bundle serialization: the inputs and the specification                  *)
(***************************************************************************)
MaxHashes == 1

\* absent, empty, and the arrays of up to MaxHashes hashes
OptionalArrays == {NoArray} \cup { Opt(TRUE, a) : a \in SeqsUpTo({"h"}, MaxHashes) }

OptionalNumbers == {NoNumber, Opt(TRUE, JsonNumber(BigZero))}

OptionalBigints == {NoBigint, Opt(TRUE, MaxUint256)}

EthBundles ==
    [txs : SeqsUpTo({"tx"}, 1),
     blockNumber : {BigZero, MaxUint256},
     minTimestamp : OptionalNumbers,
     maxTimestamp : {NoNumber, Opt(TRUE, JsonNumber(MaxUint32))},
     revertingTxHashes : OptionalArrays,
     replacementUuid : {NoString, Opt(TRUE, JsonString(<<>>))},
     droppingTxHashes : OptionalArrays,
     refundPercent : {NoNumber},
     refundRecipient : {NoString, Opt(TRUE, JsonString(<<"addr">>))},
     refundTxHashes : OptionalArrays,
     hostTxs : OptionalArrays]

CallBundles ==
    [txs : SeqsUpTo({"tx"}, 1),
     blockNumber : {BigZero, MaxUint256},
     stateBlockNumber : {BlockNumber(BigZero), BlockNumber(MaxUint256)}
                            \cup { BlockTag(tag) : tag \in BlockTags },
     timestamp : {NoBigint, Opt(TRUE, BigZero), Opt(TRUE, MaxUint256)},
     gasLimit : OptionalBigints,
     difficulty : {NoBigint},
     baseFee : OptionalBigints,
     transactionIndex : OptionalNumbers \cup {Opt(TRUE, JsonNumber(MaxUint32))},
     coinbase : {NoString, Opt(TRUE, JsonString(<<"addr">>))},
     timeout : OptionalNumbers]

BunInit ==
    /\ bunIn \in { [kind |-> "eth", bundle |-> b] : b \in EthBundles }
                    \cup { [kind |-> "call", bundle |-> b] : b \in CallBundles }
    /\ bunRaw = NotDone /\ bunBack = NotDone
    /\ CoreIdle /\ SerIdle /\ ApIdle /\ FcIdle

BunOthers == UNCHANGED <<bunIn, coreVars, serVars, apVars, fcVars>>

SerializeEthBundle ==
    /\ bunIn.kind = "eth" /\ ~bunRaw.done
    /\ bunRaw' = Done(TRUE, serializeEthBundle(bunIn.bundle))
    /\ UNCHANGED bunBack
    /\ BunOthers

DeserializeEthBundle ==
    /\ bunIn.kind = "eth" /\ bunRaw.done /\ ~bunBack.done
    /\ LET back == deserializeEthBundle(bunRaw.val)
       IN  bunBack' = Done(back.ok, back.val)
    /\ UNCHANGED bunRaw
    /\ BunOthers

SerializeCallBundle ==
    /\ bunIn.kind = "call" /\ ~bunRaw.done
    /\ bunRaw' = Done(TRUE, serializeCallBundle(bunIn.bundle))
    /\ UNCHANGED bunBack
    /\ BunOthers

DeserializeCallBundle ==
    /\ bunIn.kind = "call" /\ bunRaw.done /\ ~bunBack.done
    /\ LET back == deserializeCallBundle(bunRaw.val)
       IN  bunBack' = Done(back.ok, back.val)
    /\ UNCHANGED bunRaw
    /\ BunOthers

BunNext ==
    \/ SerializeEthBundle
    \/ DeserializeEthBundle
    \/ SerializeCallBundle
    \/ DeserializeCallBundle

BunSpec == BunInit /\ [][BunNext]_vars

(***************************************************************************)
(* Bundle serialization: the properties                                    *)
(***************************************************************************)
OptionalArrayFields ==
    {"revertingTxHashes", "droppingTxHashes", "refundTxHashes", "hostTxs"}

\* the optional arrays of the bundle that are there and have no element
EmptyArrays ==
    IF bunIn.kind # "eth" THEN {}
    ELSE { f \in OptionalArrayFields :
             bunIn.bundle[f].def /\ bunIn.bundle[f].val = <<>> }

\* C23: deserialize(serialize(b)) is b for every SignetEthBundle and every
\* SignetCallBundle b, also when optional arrays of b have length zero; such
\* an array is serialized as a field left out, not as an empty array.
C23_BundleRoundTrip ==
    /\ bunRaw.done => \A f \in EmptyArrays : ~bunRaw.val[f].def
    /\ bunBack.done => (bunBack.ok /\ bunBack.val = bunIn.bundle)

(***************************************************************************)
(* src/permit2/index.ts: ensurePermit2Approval.  apLog is what the call did *)
(* to its two clients, in order: a writeContract that was sent, the hash it *)
(* returned, a waitForTransactionReceipt that was begun, the receipt it     *)
(* returned.  apAllowance is what the allowance read returns.               *)
(***************************************************************************)
\* allowance >= params.amount, with > in place of >=
allowanceSufficientStrict(allowance, amount) == allowance > amount

\* allowance >= params.amount
allowanceSufficient(allowance, amount) == allowance >= amount

\* allowance > 0n
allowanceNonZero(allowance) == allowance > 0

\* writeContract({address: token, functionName: "approve",
\*                args: [PERMIT2_ADDRESS, amount]})
ApproveCall(token, amount) ==
    [op |-> "writeContract", token |-> token, functionName |-> "approve",
     spender |-> "PERMIT2_ADDRESS", amount |-> amount, hash |-> ""]

HashReturned(hash) ==
    [op |-> "hash", token |-> "", functionName |-> "", spender |-> "",
     amount |-> BigZero, hash |-> hash]

WaitForReceipt(hash) ==
    [op |-> "waitForTransactionReceipt", token |-> "", functionName |-> "",
     spender |-> "", amount |-> BigZero, hash |-> hash]

ReceiptReturned(hash) ==
    [op |-> "receipt", token |-> "", functionName |-> "", spender |-> "",
     amount |-> BigZero, hash |-> hash]

\* approvePermit2(client, {token}): params.amount ?? maxUint256
approvePermit2(token) == ApproveCall(token, MaxUint256)

NoTxHash == ""

ApprovalResult(approved, txHash) ==
    [settled |-> "returned", approved |-> approved, txHash |-> txHash]

ApprovalRejected == [settled |-> "rejected", approved |-> FALSE, txHash |-> NoTxHash]

ApprovalPending == [settled |-> "pending", approved |-> FALSE, txHash |-> NoTxHash]

(***************************************************************************)
(* ensurePermit2Approval: the inputs and the specification                 *)
(***************************************************************************)
ApTokens == {"USDT", "WETH"}

ApAmounts == {0, 1, 1000}

ApAllowances == {0, 1, 500, 1000, 2000}

TxHashes == {"0xaa", "0xbb"}

ApInit ==
    /\ apParams \in [token : ApTokens, owner : {Addr(2)}, amount : ApAmounts]
    /\ apAllowance \in ApAllowances
    /\ apPc = "idle"
    /\ apLog = <<>>
    /\ apResult = ApprovalPending
    /\ CoreIdle /\ SerIdle /\ BunIdle /\ FcIdle

ApOthers == UNCHANGED <<apParams, apAllowance, coreVars, serVars, bunVars, fcVars>>

\* ensurePermit2Approval(walletClient, publicClient, apParams) up to its first
\* await: the allowance is being read
ApCall ==
    /\ apPc = "idle"
    /\ apPc' = "readAllowance"
    /\ UNCHANGED <<apLog, apResult>>
    /\ ApOthers

\* the allowance read returns: enough, and the call returns; else the reset
\* is sent if the allowance is not zero, and the approval if it is
AllowanceReturns ==
    /\ apPc = "readAllowance"
    /\ IF allowanceSufficient(apAllowance, apParams.amount)
       THEN /\ apPc' = "returned"
            /\ apResult' = ApprovalResult(FALSE, NoTxHash)
            /\ UNCHANGED apLog
       ELSE IF allowanceNonZero(apAllowance)
       THEN /\ apPc' = "resetSent"
            /\ apLog' = Append(apLog, ApproveCall(apParams.token, BigZero))
            /\ UNCHANGED apResult
       ELSE /\ apPc' = "approveSent"
            /\ apLog' = Append(apLog, approvePermit2(apParams.token))
            /\ UNCHANGED apResult
    /\ ApOthers

\* the reset's writeContract returns its hash: the receipt is waited for
ResetHashReturns ==
    /\ apPc = "resetSent"
    /\ \E resetHash \in TxHashes :
         apLog' = apLog \o <<HashReturned(resetHash), WaitForReceipt(resetHash)>>
    /\ apPc' = "awaitReceipt"
    /\ UNCHANGED apResult
    /\ ApOthers

\* the receipt arrives: the approval is sent
ReceiptReturns ==
    /\ apPc = "awaitReceipt"
    /\ apLog' = apLog \o <<ReceiptReturned(apLog[Len(apLog)].hash),
                           approvePermit2(apParams.token)>>
    /\ apPc' = "approveSent"
    /\ UNCHANGED apResult
    /\ ApOthers

\* the approval's writeContract returns its hash, and the call returns
ApproveHashReturns ==
    /\ apPc = "approveSent"
    /\ \E txHash \in TxHashes :
         /\ apLog' = Append(apLog, HashReturned(txHash))
         /\ apResult' = ApprovalResult(TRUE, txHash)
    /\ apPc' = "returned"
    /\ ApOthers

\* the read, a writeContract or the wait fails: the call rejects
ApAwaitFails ==
    /\ apPc \in {"readAllowance", "resetSent", "awaitReceipt", "approveSent"}
    /\ apPc' = "rejected"
    /\ apResult' = ApprovalRejected
    /\ UNCHANGED apLog
    /\ ApOthers

ApNext ==
    \/ ApCall
    \/ AllowanceReturns
    \/ ResetHashReturns
    \/ ReceiptReturns
    \/ ApproveHashReturns
    \/ ApAwaitFails

ApSpec == ApInit /\ [][ApNext]_vars

(***************************************************************************)
(* ensurePermit2Approval: the properties                                   *)
(***************************************************************************)
\* the positions in apLog of the entries of one kind
LogPositions(op) == { k \in 1..Len(apLog) : apLog[k].op = op }

IsApprove(entry) ==
    /\ entry.op = "writeContract" /\ entry.functionName = "approve"
    /\ entry.token = apParams.token /\ entry.spender = "PERMIT2_ADDRESS"

ApReturned == apResult.settled = "returned"

\* C25: with an allowance of at least the amount no transaction is sent and
\* the result is approved: false.  With an allowance that is not zero and
\* below the amount approve(Permit2, 0) is sent first, its receipt is waited
\* for, and only then the approving transaction is sent: two transactions,
\* one wait.  With an allowance of zero only the approving transaction is
\* sent.  In both approving cases the result is approved: true with the hash
\* of the approving transaction.
C25_ApprovalSequence ==
    /\ apAllowance >= apParams.amount
         => /\ LogPositions("writeContract") = {}
            /\ LogPositions("waitForTransactionReceipt") = {}
            /\ ApReturned => (~apResult.approved /\ apResult.txHash = NoTxHash)
    /\ (0 < apAllowance /\ apAllowance < apParams.amount)
         => /\ Len(apLog) >= 1 => (IsApprove(apLog[1]) /\ apLog[1].amount = BigZero)
            /\ Len(apLog) >= 3 => apLog[3] = WaitForReceipt(apLog[2].hash)
            /\ Len(apLog) >= 5
                 => (apLog[4] = ReceiptReturned(apLog[2].hash) /\ IsApprove(apLog[5]))
            /\ ApReturned
                 => /\ Cardinality(LogPositions("writeContract")) = 2
                    /\ Cardinality(LogPositions("waitForTransactionReceipt")) = 1
                    /\ Len(apLog) = 6
                    /\ apResult = ApprovalResult(TRUE, apLog[6].hash)
    /\ (apAllowance = 0 /\ apAllowance < apParams.amount)
         => /\ LogPositions("waitForTransactionReceipt") = {}
            /\ Cardinality(LogPositions("writeContract")) <= 1
            /\ Len(apLog) >= 1 => IsApprove(apLog[1])
            /\ ApReturned
                 => /\ Len(apLog) = 2
                    /\ apResult = ApprovalResult(TRUE, apLog[2].hash)

\* the reset and the approval were given different hashes, and the result
\* carries the approval's
C25_Witness ==
    /\ ApReturned /\ apResult.approved
    /\ apAllowance = 500 /\ apParams.amount = 1000
    /\ Len(apLog) = 6
    /\ apLog[2].hash # apLog[6].hash
    /\ apResult.txHash = apLog[6].hash

(***************************************************************************)
(* src/client/faucet.ts: checkCooldown and canRequest.  fcReply is the body *)
(* the faucet answers POST /drip/status with: success, whether an error is  *)
(* there and its code, whether data is there, and data, a function from the *)
(* addresses it has an entry for to their FaucetAddressStatus.              *)
(***************************************************************************)
FaucetAssets == {"usd", "eth"}

FaucetReturned(value) == [settled |-> "returned", value |-> value, code |-> ""]

FaucetRejected(code) == [settled |-> "rejected", value |-> FALSE, code |-> code]

FaucetPending == [settled |-> "pending", value |-> FALSE, code |-> ""]

\* checkCooldown([address]) once post has returned the body: [ok, code, data]
checkCooldown(response) ==
    IF ~response.success /\ response.hasError
    THEN [ok |-> FALSE, code |-> response.errorCode, data |-> <<>>]
    ELSE IF ~response.hasData
    THEN [ok |-> FALSE, code |-> "INVALID_RESPONSE", data |-> <<>>]
    ELSE [ok |-> TRUE, code |-> "", data |-> response.data]

\* canRequest(address) once checkCooldown has settled: status[address] read on
\* a status without that entry is a TypeError
canRequest(address, response) ==
    LET status == checkCooldown(response)
    IN  IF ~status.ok THEN FaucetRejected(status.code)
        ELSE IF address \notin DOMAIN status.data THEN FaucetRejected("TypeError")
        ELSE FaucetReturned(~status.data[address].on_cooldown)

(***************************************************************************)
(* canRequest: the inputs and the specification                            *)
(***************************************************************************)
FaucetAddresses == {"0xA1", "0xA2"}

\* FaucetAddressStatus: on_cooldown tells whether any asset is on cooldown
FaucetStatuses ==
    { [on_cooldown |-> \E asset \in FaucetAssets : assets[asset].on_cooldown,
       assets |-> assets] :
        assets \in [FaucetAssets -> [on_cooldown : BOOLEAN]] }

\* no entry, or the entry of one address
FaucetData ==
    UNION { [S -> FaucetStatuses] : S \in {{}} \cup { {a} : a \in FaucetAddresses } }

FaucetReplies ==
    { [success |-> s, hasError |-> e,
       errorCode |-> IF e THEN "ALREADY_CLAIMED" ELSE "",
       hasData |-> TRUE, data |-> d] :
        s \in BOOLEAN, e \in BOOLEAN, d \in FaucetData }
      \cup
    { [success |-> s, hasError |-> e,
       errorCode |-> IF e THEN "ALREADY_CLAIMED" ELSE "",
       hasData |-> FALSE, data |-> <<>>] :
        s \in BOOLEAN, e \in BOOLEAN }

PostErrors == {"PARSE_ERROR", "TIMEOUT", "NETWORK_ERROR"}

FcInit ==
    /\ fcAddress = "0xA1"
    /\ fcReply \in FaucetReplies
    /\ fcPc = "idle"
    /\ fcResult = FaucetPending
    /\ CoreIdle /\ SerIdle /\ BunIdle /\ ApIdle

FcOthers == UNCHANGED <<fcAddress, fcReply, coreVars, serVars, bunVars, apVars>>

\* canRequest(fcAddress) up to the await in post: the request is sent
CanRequestCall ==
    /\ fcPc = "idle"
    /\ fcPc' = "posting"
    /\ UNCHANGED fcResult
    /\ FcOthers

\* fetch fails, times out, or the body is not JSON: post throws
PostFails ==
    /\ fcPc = "posting"
    /\ \E code \in PostErrors : fcResult' = FaucetRejected(code)
    /\ fcPc' = "settled"
    /\ FcOthers

\* post returns the body fcReply
PostReturns ==
    /\ fcPc = "posting"
    /\ fcResult' = canRequest(fcAddress, fcReply)
    /\ fcPc' = "settled"
    /\ FcOthers

FcNext == CanRequestCall \/ PostFails \/ PostReturns

FcSpec == FcInit /\ [][FcNext]_vars

(***************************************************************************)
(* canRequest: the properties                                              *)
(***************************************************************************)
\* C26: canRequest(address) returns true exactly if at least one asset of the
\* address is not on cooldown in the status checkCooldown returned.
C26_CanRequestSomeAsset ==
    fcResult.settled = "returned"
        => (fcResult.value
              <=> \E asset \in FaucetAssets :
                     ~fcReply.data[fcAddress].assets[asset].on_cooldown)

====
